---- MODULE Spec2Model ----
(***************************************************************************)
(* A model of the verifying Ethereum JSON-RPC provider (patronum).         *)
(*                                                                         *)
(* 32-byte hashes, addresses, storage keys and byte strings are opaque     *)
(* values, modelled as integers.  keccak256, the header hash and the MPT   *)
(* root are injective on the values of the model (collision resistance).   *)
(* An RLP encoding is the tuple of the encoded items.                      *)
(***************************************************************************)
EXTENDS Integers, Sequences, FiniteSets, TLC

(* ------------------------------ bounds -------------------------------- *)
\* highest block number of the modelled chain
MaxBlock == 2
\* greatest number of storage keys in one eth_getProof request
MaxKeys == 1
\* greatest number of sub-requests in one batch of the RPC client
MaxBatch == 2

(* ------------------------- program constants -------------------------- *)
ZERO_HASH == 0
KECCAK256_NULL_S == 1
KECCAK256_RLP_S == 2
MAX_BLOCK_HISTORY == 256
MAX_BLOCK_FUTURE == 3
\* the default of the retry parameter of _retryRequest and _retryBatch
RETRY == 5
REQUEST_BATCH_SIZE == 10

\* the value a trie proof resolves to when the key is absent (JS null)
NULL == <<>>
\* the outcomes of a call that may throw
THROWS == "throws"

(* ------------------------------ the chain ----------------------------- *)
\* state roots of the modelled world
StateRoot(i) == 10 + i
R1 == StateRoot(1)
R2 == StateRoot(2)
StateRoots == {R1, R2}
\* addresses; keccak256(address) is the address' key in the state trie
Address(i) == 20 + i
ZERO_ADDR == Address(0)
A1 == Address(1)
A2 == Address(2)
Addresses == {A1, A2}
\* storage root of the one contract with storage, and its code
S1 == 30 + 1
\* byte strings: "0x" and two contract codes
Code(i) == 40 + i
CODE_EMPTY == Code(0)
CODE_1 == Code(1)
CODE_2 == Code(2)
Codes == {CODE_EMPTY, CODE_1, CODE_2}
\* storage slots
Slots == {1, 2}

\* Web3.utils.keccak256 on the byte strings of the model
keccak256(code) ==
    IF code = CODE_EMPTY THEN KECCAK256_NULL_S ELSE code + 10

\* rlp.encode of one item, and of the four account fields
rlpEncode(v) == <<v>>
AccountSerialize(nonce, balance, storageRoot, codeHash) ==
    <<nonce, balance, storageRoot, codeHash>>
emptyAccountRLP ==
    AccountSerialize(0, 0, KECCAK256_RLP_S, KECCAK256_NULL_S)

\* The state trie under each state root: key -> account RLP, or NULL.
StateTrie(root, address) ==
    CASE root = R1 /\ address = A1 ->
            AccountSerialize(1, 1, S1, keccak256(CODE_1))
      [] root = R1 /\ address = A2 -> NULL
      [] root = R2 /\ address = A1 ->
            AccountSerialize(1, 0, S1, keccak256(CODE_1))
      [] root = R2 /\ address = A2 ->
            AccountSerialize(0, 1, KECCAK256_RLP_S, KECCAK256_NULL_S)
      [] OTHER -> NULL

\* The storage trie under each storage root: slot -> rlp(value), or NULL.
StorageTrie(root, slot) ==
    IF root = S1 /\ slot = 1 THEN rlpEncode(1) ELSE NULL

\* The nodes of a Merkle-Patricia proof, by what they prove: the honest
\* nodes of the path of `key` in the trie with root `root`, or nodes that
\* were tampered with (root = -1).
ProofNodes(roots, keys) ==
    [root : roots, key : keys] \cup {[root |-> -1, key |-> -1]}

\* Trie.verifyProof(root, key, nodes): the value stored under key in the
\* trie with that root (`stored`, NULL when absent) when the nodes are a
\* proof of it, and an exception when they are not.
TrieVerifyProof(stored, root, key, nodes) ==
    IF nodes.root = root /\ nodes.key = key
    THEN stored
    ELSE THROWS

(* ------------------------- State-Proof Verifier ----------------------- *)
\* mutant: the empty code passes for every codeHash
verifyCodeHash_Mut(code, codeHash) ==
    code = CODE_EMPTY \/ keccak256(code) = codeHash
verifyCodeHash(code, codeHash) ==
    \/ (code = CODE_EMPTY /\ codeHash = KECCAK256_NULL_S)
    \/ (code = CODE_EMPTY /\ codeHash = ZERO_HASH)
    \/ keccak256(code) = codeHash

\* the account built from the proof's fields (lines 885-894)
ProofAccountRLP(proof) ==
    AccountSerialize(
        proof.nonce, proof.balance,
        IF proof.storageHash = ZERO_HASH THEN KECCAK256_RLP_S
                                         ELSE proof.storageHash,
        IF proof.codeHash = ZERO_HASH THEN KECCAK256_NULL_S
                                      ELSE proof.codeHash)

\* one iteration of the storage loop: "true", "false" or THROWS
verifyStorageSlot(storageKey, storageHash, storageProof, i) ==
    IF i > Len(storageProof) THEN THROWS   \* sp is undefined: sp.proof throws
    ELSE LET sp == storageProof[i]
             expectedStorageRLP ==
                 TrieVerifyProof(StorageTrie(storageHash, storageKey),
                            storageHash, storageKey, sp.proof)
         IN  IF expectedStorageRLP = THROWS THEN THROWS
             ELSE IF \/ (expectedStorageRLP = NULL /\ sp.value = 0)
                     \/ (expectedStorageRLP # NULL
                         /\ expectedStorageRLP = rlpEncode(sp.value))
                  THEN "true" ELSE "false"

RECURSIVE verifyStorageLoop(_, _, _)
verifyStorageLoop(storageKeys, proof, i) ==
    IF i > Len(storageKeys) THEN "true"
    ELSE LET r == verifyStorageSlot(storageKeys[i], proof.storageHash,
                                    proof.storageProof, i)
         IN  IF r = "true" THEN verifyStorageLoop(storageKeys, proof, i + 1)
             ELSE r

\* mutant: the balance is left out of the account that is compared
verifyProof_Mut(address, storageKeys, stateRoot, proof) ==
    LET expectedAccountRLP ==
            TrieVerifyProof(StateTrie(stateRoot, address),
                            stateRoot, address, proof.accountProof)
    IN  IF expectedAccountRLP = THROWS THEN THROWS
        ELSE LET e == IF expectedAccountRLP = NULL THEN emptyAccountRLP
                                                   ELSE expectedAccountRLP
                 a == ProofAccountRLP(proof)
             IN  IF ~(a[1] = e[1] /\ a[3] = e[3] /\ a[4] = e[4]) THEN "false"
                 ELSE verifyStorageLoop(storageKeys, proof, 1)

\* verifyProof(address, storageKeys, stateRoot, proof):
\* "true", "false", or THROWS when the call rejects with an exception
verifyProof(address, storageKeys, stateRoot, proof) ==
    LET expectedAccountRLP ==
            TrieVerifyProof(StateTrie(stateRoot, address),
                            stateRoot, address, proof.accountProof)
    IN  IF expectedAccountRLP = THROWS THEN THROWS
        ELSE LET isAccountValid ==
                     ProofAccountRLP(proof) =
                        (IF expectedAccountRLP = NULL THEN emptyAccountRLP
                                                      ELSE expectedAccountRLP)
             IN  IF ~isAccountValid THEN "false"
                 ELSE verifyStorageLoop(storageKeys, proof, 1)

(* --------------------- what the upstream may answer ------------------- *)
\* sequences over S of length at most n
SeqsUpTo(S, n) == UNION {[1..k -> S] : k \in 0..n}

StorageProofEntries ==
    [key : Slots, value : 0..1,
     proof : ProofNodes({S1, KECCAK256_RLP_S}, Slots)]

\* every eth_getProof result the upstream may send
GetProofResponses ==
    [nonce : 0..1, balance : 0..1,
     storageHash : {ZERO_HASH, KECCAK256_RLP_S, S1},
     codeHash : {ZERO_HASH, KECCAK256_NULL_S, keccak256(CODE_1)},
     accountProof : ProofNodes(StateRoots, Addresses),
     storageProof : SeqsUpTo(StorageProofEntries, MaxKeys)]

\* the results of eth_getProof(address, [], number): no storage key was
\* asked for, and nothing reads storageProof
AccountProofResponses == {p \in GetProofResponses : p.storageProof = <<>>}

(* ------------------------- headers and blocks ------------------------- *)
\* Transactions are 1 and 2; the root of the trie with transaction i under
\* key rlp(i) is injective in the list of transactions.
Txs == {1, 2}
TxSeqs == SeqsUpTo(Txs, 2)
RECURSIVE SeqCode(_)
SeqCode(s) == IF s = <<>> THEN 0 ELSE s[1] + 3 * SeqCode(Tail(s))
TxRoot(txs) == IF txs = <<>> THEN KECCAK256_RLP_S ELSE 300 + SeqCode(txs)
TxHash(tx) == 200 + tx

\* Logs are told apart by address, topics and data. A receipt is modelled
\* by its logs; the JSON receipt of the upstream carries in addition the
\* hash of its transaction, which is not part of the encoded receipt.
Log(i) == [address |-> 50 + i, topics |-> <<60 + i>>, data |-> 70 + i]
LogBodies == {Log(1), Log(2)}
ReceiptLogs == SeqsUpTo(LogBodies, 1)
JSONRPCReceipts == [transactionHash : {TxHash(tx) : tx \in Txs},
                    logs : ReceiptLogs]
\* encodeReceipt(txReceiptFromJSONRPCReceipt(receiptJson), type), injective
\* in the logs of the receipt
encodeReceipt(receiptJson) ==
    IF receiptJson.logs = <<>> THEN 1
    ELSE IF receiptJson.logs[1] = Log(1) THEN 2 ELSE 3
\* the root of the trie with encoded receipt i under key rlp(i), injective
\* in the list of encoded receipts
RECURSIVE ReceiptCode(_)
ReceiptCode(receipts) ==
    IF receipts = <<>> THEN 0
    ELSE encodeReceipt(receipts[1]) + 4 * ReceiptCode(Tail(receipts))
ReceiptRoot(receipts) ==
    IF receipts = <<>> THEN KECCAK256_RLP_S ELSE 400 + ReceiptCode(receipts)
\* the bloom filter of a list of receipts, as the set of the addresses and
\* topics that are positive in it
LogsBloom(receipts) ==
    UNION {{receipts[j].logs[k].address, receipts[j].logs[k].topics[1]} :
              <<j, k>> \in {x \in (1..Len(receipts)) \X (1..1) :
                               x[2] <= Len(receipts[x[1]].logs)}}
isInBloom(logsBloom, item) == item \in logsBloom

\* The headers of the model, by variant and number: variants 1 and 2 are
\* the two forks of the chain above the common block 0, variant 3 is the
\* header of fork 1 with a state root that was tampered with, variant 4 is
\* a chain that shares no block with the others (a reorg deeper than the
\* blocks of the model).
HeaderIds ==
    {<<1, 0>>} \cup ((1..3) \X (1..MaxBlock)) \cup ({4} \X (0..MaxBlock))
BlockHashOf(v, n) == 100 + 10 * n + v
TxsOf(v, n) == IF n = 0 THEN <<>> ELSE IF v = 2 THEN <<2>> ELSE <<1, 2>>
\* the receipts of the blocks: the first transaction of a block of fork 1
\* emits Log(1), no other transaction emits a log
ReceiptsOf(v, n) ==
    [j \in 1..Len(TxsOf(v, n)) |->
        [transactionHash |-> TxHash(TxsOf(v, n)[j]),
         logs |-> IF v # 2 /\ j = 1 THEN <<Log(1)>> ELSE <<>>]]
StateRootOf(v, n) ==
    IF v = 1 THEN (IF n % 2 = 0 THEN R1 ELSE R2)
             ELSE (IF n % 2 = 0 THEN R2 ELSE R1)
HeaderOf(v, n) ==
    [number |-> n,
     parentHash |-> IF n = 0 THEN ZERO_HASH
                    ELSE IF v = 4 THEN BlockHashOf(4, n - 1)
                    ELSE IF n = 1 THEN BlockHashOf(1, 0)
                    ELSE BlockHashOf(IF v = 2 THEN 2 ELSE 1, n - 1),
     stateRoot |-> StateRootOf(v, n),
     transactionsTrie |-> TxRoot(TxsOf(v, n)),
     receiptTrie |-> ReceiptRoot(ReceiptsOf(v, n)),
     logsBloom |-> LogsBloom(ReceiptsOf(v, n)),
     extraData |-> IF v \in {2, 4} THEN v ELSE 1]
HeaderUniverse == {HeaderOf(id[1], id[2]) : id \in HeaderIds}
\* header.hash(): keccak256(rlp(header)), injective on the headers
HeaderHash(header) ==
    LET id == CHOOSE id \in HeaderIds : HeaderOf(id[1], id[2]) = header
    IN  BlockHashOf(id[1], id[2])
HeaderHashes == {HeaderHash(h) : h \in HeaderUniverse}
\* the headers of the two forks and the tampered ones, which the upstream
\* sends in block bodies and whose hashes clients ask for
ForkHeaders ==
    {HeaderOf(id[1], id[2]) : id \in {i \in HeaderIds : i[1] \in 1..3}}
ForkHashes == {HeaderHash(h) : h \in ForkHeaders}
\* the heads the head follower may report: the blocks of the two forks
TrustedHeads ==
    {HeaderOf(id[1], id[2]) : id \in {i \in HeaderIds : i[1] \in {1, 2}}}

NoHeader ==
    [number |-> -1, parentHash |-> -1, stateRoot |-> -1,
     transactionsTrie |-> -1, receiptTrie |-> -1, logsBloom |-> {},
     extraData |-> -1]
\* JS undefined / a value that is not there
NONE == 0 - 1

\* what the upstream may answer to eth_getBlockByHash / eth_getBlockByNumber
\* (headerDataFromWeb3Response / blockDataFromWeb3Response keep the fields)
BlockInfos == [header : ForkHeaders, transactions : TxSeqs]

VARIABLES
    latestBlockNumber,  \* this.latestBlockNumber
    blockHashes,        \* this.blockHashes: block number -> hash (or NONE)
    blockHeaders,       \* this.blockHeaders: hash -> verified header
    blockPromises,      \* this.blockPromises: block number -> promise state
    req,                \* the requests in flight: locals and position
    vp,     \* the last verifyProof call: its arguments and its outcome
    vm,     \* getVM: its locals and the state it installed into the VM copy
    lg,     \* getLogs: its locals and its position
    hf,     \* the head follower: the arguments of its last update() call
    rpc     \* the RPC client: the locals of the retry loop, the
            \* transmissions made and the replies received

vars == <<latestBlockNumber, blockHashes, blockHeaders, blockPromises, req,
          vp, vm, lg, hf, rpc>>
storeVars == <<latestBlockNumber, blockHashes, blockHeaders, blockPromises>>

NoCall == [called |-> FALSE]
NoVM == [pc |-> "idle"]
NoLogs == [pc |-> "idle"]
NoUpdate == [called |-> FALSE]
\* the ids of the sub-requests of a call of the RPC client (generateId)
RpcIds == 1..MaxBatch
\* no entry under an id in `results`
NoResponse == [id |-> NONE, success |-> FALSE]
NoRPC ==
    [op |-> "none", pc |-> "idle", requestsRaw |-> <<>>,
     requestsLeft |-> <<>>, results |-> [id \in RpcIds |-> NoResponse],
     t |-> 0, sent |-> <<>>, res |-> <<>>, value |-> <<>>, kind |-> "none"]

(* --------------------------- Trusted-Head Store ----------------------- *)
\* mutant: only the promise of blockNumber itself is resolved
UpdateStore_MutOnlyOwn(blockHash, blockNumber) ==
    /\ latestBlockNumber' = blockNumber
    /\ blockHashes' = [blockHashes EXCEPT ![blockNumber] = blockHash]
    /\ blockPromises' =
          [b \in DOMAIN blockPromises |->
              IF /\ blockNumber > latestBlockNumber
                 /\ b = blockNumber
                 /\ blockPromises[b] # "none"
              THEN "resolved" ELSE blockPromises[b]]
    /\ UNCHANGED blockHeaders

\* mutant: the loop stops one block short of blockNumber
UpdateStore_MutShort(blockHash, blockNumber) ==
    /\ latestBlockNumber' = blockNumber
    /\ blockHashes' = [blockHashes EXCEPT ![blockNumber] = blockHash]
    /\ blockPromises' =
          [b \in DOMAIN blockPromises |->
              IF /\ blockNumber > latestBlockNumber
                 /\ b > latestBlockNumber /\ b < blockNumber
                 /\ blockPromises[b] # "none"
              THEN "resolved" ELSE blockPromises[b]]
    /\ UNCHANGED blockHeaders

\* mutant: the loop starts two blocks above the old head
UpdateStore_MutSkipFirst(blockHash, blockNumber) ==
    /\ latestBlockNumber' = blockNumber
    /\ blockHashes' = [blockHashes EXCEPT ![blockNumber] = blockHash]
    /\ blockPromises' =
          [b \in DOMAIN blockPromises |->
              IF /\ blockNumber > latestBlockNumber
                 /\ b > latestBlockNumber + 1 /\ b <= blockNumber
                 /\ blockPromises[b] # "none"
              THEN "resolved" ELSE blockPromises[b]]
    /\ UNCHANGED blockHeaders

\* update(blockHash, blockNumber)
UpdateStore(blockHash, blockNumber) ==
    /\ latestBlockNumber' = blockNumber
    /\ blockHashes' = [blockHashes EXCEPT ![blockNumber] = blockHash]
    /\ blockPromises' =
          [b \in DOMAIN blockPromises |->
              IF /\ blockNumber > latestBlockNumber
                 /\ b > latestBlockNumber /\ b <= blockNumber
                 /\ blockPromises[b] # "none"
              THEN "resolved" ELSE blockPromises[b]]
    /\ UNCHANGED blockHeaders

\* getBlockNumberByBlockOpt(blockOpt): the number, or NONE for InvalidParams
BlockOpts ==
    [tag : {"latest", "pending", "earliest", "finalized", "safe"}, n : {0}]
    \cup [tag : {"hex"}, n : 0..(MaxBlock + MAX_BLOCK_FUTURE + 1)]
\* mutant: a block exactly MAX_BLOCK_HISTORY behind is already too old
getBlockNumberByBlockOpt_Mut(blockOpt, latest) ==
    IF blockOpt.tag \in {"pending", "earliest", "finalized", "safe"} THEN NONE
    ELSE IF blockOpt.tag = "latest" THEN latest
    ELSE IF blockOpt.n > latest + MAX_BLOCK_FUTURE THEN NONE
    ELSE IF blockOpt.n + MAX_BLOCK_HISTORY <= latest THEN NONE
    ELSE blockOpt.n

getBlockNumberByBlockOpt(blockOpt, latest) ==
    IF blockOpt.tag \in {"pending", "earliest", "finalized", "safe"} THEN NONE
    ELSE IF blockOpt.tag = "latest" THEN latest
    ELSE IF blockOpt.n > latest + MAX_BLOCK_FUTURE THEN NONE
    ELSE IF blockOpt.n + MAX_BLOCK_HISTORY < latest THEN NONE
    ELSE blockOpt.n

\* The iterations of getBlockHash's loop that find their header in the
\* cache, from lastVerifiedBlockNumber = k down to blockNumber = n: each
\* records the parent hash one block below.
RECURSIVE WalkCached(_, _, _, _)
WalkCached(hashes, headers, k, n) ==
    IF k > n /\ headers[hashes[k]] # NoHeader
    THEN WalkCached([hashes EXCEPT ![k - 1] = headers[hashes[k]].parentHash],
                    headers, k - 1, n)
    ELSE [hashes |-> hashes, k |-> k]

(* ------------------------------ requests ------------------------------ *)
Reqs == {1}
Ops == {"getBalance", "getTransactionCount", "getCode",
        "getBlockByNumber", "getBlockByHash"}
NoBlock == [header |-> NoHeader, transactions |-> <<>>]
\* no JSON block was built yet
NoJSONBlock == [header |-> NoHeader, transactions |-> <<>>, uncles |-> <<>>]
\* no receipt: the `null` of getTransactionReceipt
NoReceipt ==
    [transactionHash |-> NONE, transactionIndex |-> NONE, blockHash |-> NONE,
     blockNumber |-> [tag |-> "none", n |-> NONE], status |-> NONE]
Idle ==
    [op |-> "none", pc |-> "idle", n |-> NONE, address |-> NONE,
     hash |-> NONE, k |-> NONE, blockHash |-> NONE, header |-> NoHeader,
     value |-> NONE, block |-> NoBlock, kind |-> "none", reason |-> "none",
     startNumber |-> NONE, startHash |-> NONE, preStored |-> NONE,
     verified |-> "none", codeHash |-> NONE, txHash |-> NONE,
     receipt |-> NoReceipt, result |-> NoReceipt, uncles |-> <<>>,
     json |-> NoJSONBlock]

Fail(r, kind, reason) ==
    [r EXCEPT !.pc = "failed", !.kind = kind, !.reason = reason]

\* after getBlockHeader / getBlockHeaderByHash returned `header`: the
\* operation sends its own upstream request and suspends
AfterHeader(r, header) ==
    [r EXCEPT !.header = header,
              !.pc = IF r.op = "getBlockHeader" THEN "done"
                     ELSE IF r.op \in {"getBlockByNumber", "getBlockByHash",
                                        "getTransactionReceipt"}
                     THEN "block" ELSE "proof"]

\* getBlockHeaderByHash(hash) up to its suspension: a cache hit returns
getBlockHeaderByHash(r, headers, hash) ==
    IF headers[hash] # NoHeader THEN AfterHeader(r, headers[hash])
    ELSE [r EXCEPT !.pc = "hdr", !.hash = hash]

\* getBlockHash's loop from lastVerifiedBlockNumber = k until it suspends
\* on an upstream fetch or returns this.blockHashes[n]; then line 654
ContinueWalk(r, hashes, headers, k) ==
    LET w == WalkCached(hashes, headers, k, r.n)
    IN  IF w.k > r.n
        THEN [req |-> [r EXCEPT !.pc = "walk", !.k = w.k,
                                !.hash = w.hashes[w.k]],
              hashes |-> w.hashes]
        ELSE [req |-> getBlockHeaderByHash(
                         [r EXCEPT !.blockHash = w.hashes[r.n], !.k = w.k],
                         headers, w.hashes[r.n]),
              hashes |-> w.hashes]

\* mutant: a hash already stored for n is returned without the walk
getBlockHash_Mut(r) ==
    LET r1 == [r EXCEPT !.startNumber = latestBlockNumber,
                        !.startHash = blockHashes[latestBlockNumber],
                        !.preStored = IF r.n \in DOMAIN blockHashes
                                      THEN blockHashes[r.n] ELSE NONE]
    IN  IF r.n > latestBlockNumber
        THEN [req |-> Fail(r1, "Error", "future"), hashes |-> blockHashes]
        ELSE IF blockHashes[r.n] # NONE
        THEN [req |-> getBlockHeaderByHash(
                         [r1 EXCEPT !.blockHash = blockHashes[r.n]],
                         blockHeaders, blockHashes[r.n]),
              hashes |-> blockHashes]
        ELSE ContinueWalk(r1, blockHashes, blockHeaders, latestBlockNumber)

\* getBlockHash(n), entered with the store as it is now
getBlockHash(r) ==
    LET r1 == [r EXCEPT !.startNumber = latestBlockNumber,
                        !.startHash = blockHashes[latestBlockNumber],
                        !.preStored = IF r.n \in DOMAIN blockHashes
                                      THEN blockHashes[r.n] ELSE NONE]
    IN  IF r.n > latestBlockNumber
        THEN [req |-> Fail(r1, "Error", "future"), hashes |-> blockHashes]
        ELSE ContinueWalk(r1, blockHashes, blockHeaders, latestBlockNumber)

\* getBlockByHash(blockHash) arrives: up to its first suspension
StartByHash(i) ==
    /\ req[i].pc = "idle"
    /\ \E blockHash \in ForkHashes :
          req' = [req EXCEPT ![i] = getBlockHeaderByHash(
                     [Idle EXCEPT !.op = "getBlockByHash",
                                  !.blockHash = blockHash],
                     blockHeaders, blockHash)]
    /\ UNCHANGED <<storeVars, vp, vm, lg, hf, rpc>>

\* the address argument of an operation
AddressArgs(op) ==
    IF op \in {"getBlockByNumber", "getBlockHeader"} THEN {NONE}
                                                     ELSE Addresses

\* getBlockHeader(blockOpt) of request i, whose locals are r, up to its
\* first suspension
getBlockHeader(i, r, blockOpt) ==
    LET n == getBlockNumberByBlockOpt(blockOpt, latestBlockNumber)
    IN  IF n = NONE
        THEN /\ req' = [req EXCEPT ![i] =
                           Fail(r, "InvalidParams", "blockOpt")]
             /\ UNCHANGED <<storeVars, vp, vm, lg, hf, rpc>>
        ELSE IF n > latestBlockNumber
        THEN \* waitForBlockNumber installs or joins the promise;
             \* no update ever reaches a number above MaxBlock
             /\ n <= MaxBlock
             /\ req' = [req EXCEPT ![i] = [r EXCEPT !.pc = "wait",
                                                    !.n = n]]
             /\ blockPromises' =
                   [blockPromises EXCEPT ![n] =
                       IF @ = "none" THEN "pending" ELSE @]
             /\ UNCHANGED <<latestBlockNumber, blockHashes,
                            blockHeaders, vp, vm, lg, hf, rpc>>
        ELSE LET g == getBlockHash([r EXCEPT !.n = n])
             IN  /\ req' = [req EXCEPT ![i] = g.req]
                 /\ blockHashes' = g.hashes
                 /\ UNCHANGED <<latestBlockNumber, blockHeaders,
                                blockPromises, vp, vm, lg, hf, rpc>>

\* an operation of `ops` with a block tag arrives: getBlockHeader(blockOpt)
\* up to its first suspension
StartOp(i, ops) ==
    /\ req[i].pc = "idle"
    /\ \E op \in ops, blockOpt \in BlockOpts :
       \E address \in AddressArgs(op) :
          getBlockHeader(i, [Idle EXCEPT !.op = op, !.address = address],
                         blockOpt)

\* the promise of waitForBlockNumber was resolved: getBlockHeader goes on
Resume(i) ==
    /\ req[i].pc = "wait"
    /\ blockPromises[req[i].n] = "resolved"
    /\ LET g == getBlockHash(req[i])
       IN  /\ req' = [req EXCEPT ![i] = g.req]
           /\ blockHashes' = g.hashes
    /\ UNCHANGED <<latestBlockNumber, blockHeaders, blockPromises, vp, vm, lg, hf, rpc>>

\* equalsBytes(header.hash(), hexToBytes(blockHash)), line 854
headerHashMatches_Mut(header, blockHash) ==
    header.number = HeaderOf(1, 0).number \/ HeaderHash(header) = blockHash
headerHashMatches(header, blockHash) == HeaderHash(header) = blockHash

\* the upstream answers eth_getBlockByHash(hash): lines 843-861, and then
\* the caller's continuation
HeaderResponse(i) ==
    /\ req[i].pc \in {"walk", "hdr"}
    /\ \E blockInfo \in HeaderUniverse \cup {NoHeader} :
          LET r == req[i] IN
          IF blockInfo = NoHeader
          THEN /\ req' = [req EXCEPT ![i] = Fail(r, "Error", "rpc")]
               /\ UNCHANGED <<storeVars, vp, vm, lg, hf, rpc>>
          ELSE IF ~headerHashMatches(blockInfo, r.hash)
          THEN /\ req' = [req EXCEPT ![i] = Fail(r, "Internal", "headerHash")]
               /\ UNCHANGED <<storeVars, vp, vm, lg, hf, rpc>>
          ELSE LET headers == [blockHeaders EXCEPT ![r.hash] = blockInfo]
               IN  /\ blockHeaders' = headers
                   /\ IF r.pc = "hdr"
                      THEN /\ req' = [req EXCEPT ![i] =
                                         AfterHeader(r, blockInfo)]
                           /\ UNCHANGED blockHashes
                      ELSE LET g == ContinueWalk(r,
                                       [blockHashes EXCEPT ![r.k - 1] =
                                           blockInfo.parentHash],
                                       headers, r.k - 1)
                           IN  /\ req' = [req EXCEPT ![i] = g.req]
                               /\ blockHashes' = g.hashes
                   /\ UNCHANGED <<latestBlockNumber, blockPromises, vp, vm, lg, hf, rpc>>

\* what getBalance / getTransactionCount / getCode do with the proof (and
\* the code) the upstream sent
AccountResult(r, proof, code) ==
    LET isAccountCorrect == verifyProof(r.address, <<>>, r.header.stateRoot, proof)
        r1 == [r EXCEPT !.verified = isAccountCorrect,
                        !.codeHash = IF r.op = "getCode" THEN proof.codeHash
                                                         ELSE NONE]
    IN  IF isAccountCorrect = THROWS THEN Fail(r1, "Error", "accountProof")
        ELSE IF isAccountCorrect = "false"
        THEN Fail(r1, "Internal", "accountProof")
        ELSE IF r.op = "getBalance"
        THEN [r1 EXCEPT !.pc = "done", !.value = proof.balance]
        ELSE IF r.op = "getTransactionCount"
        THEN [r1 EXCEPT !.pc = "done", !.value = proof.nonce]
        ELSE IF ~verifyCodeHash(code, proof.codeHash)
        THEN Fail(r1, "Internal", "codeHash")
        ELSE [r1 EXCEPT !.pc = "done", !.value = code]

\* the upstream answers eth_getProof (getCode: and eth_getCode)
ProofResponse(i) ==
    /\ req[i].pc = "proof"
    /\ \/ req' = [req EXCEPT ![i] = Fail(req[i], "Error", "rpc")]
       \/ \E proof \in AccountProofResponses :
          \E code \in (IF req[i].op = "getCode" THEN Codes ELSE {NONE}) :
             req' = [req EXCEPT ![i] = AccountResult(req[i], proof, code)]
    /\ UNCHANGED <<storeVars, vp, vm, lg, hf, rpc>>

\* mutant: the transactions trie is not validated
getBlock_Mut(r, blockInfo) ==
    IF HeaderHash(blockInfo.header) # HeaderHash(r.header)
    THEN Fail(r, "Internal", "blockHash")
    ELSE [r EXCEPT !.pc = "done", !.block = blockInfo]

\* getBlock(header) after its upstream request: lines 626-647
getBlock(r, blockInfo) ==
    IF HeaderHash(blockInfo.header) # HeaderHash(r.header)
    THEN Fail(r, "Internal", "blockHash")
    ELSE IF TxRoot(blockInfo.transactions) # blockInfo.header.transactionsTrie
    THEN Fail(r, "Internal", "transactionsRoot")
    ELSE [r EXCEPT !.pc = "done", !.block = blockInfo]

\* the upstream answers eth_getBlockByNumber(header.number, true)
BlockResponse(i) ==
    /\ req[i].pc = "block"
    /\ \/ req' = [req EXCEPT ![i] = Fail(req[i], "Error", "rpc")]
       \/ \E blockInfo \in BlockInfos :
             req' = [req EXCEPT ![i] = getBlock(req[i], blockInfo)]
    /\ UNCHANGED <<storeVars, vp, vm, lg, hf, rpc>>

\* the response (a result or an error) was sent to the client
Return(i) ==
    /\ req[i].pc \in {"done", "failed"}
    /\ req' = [req EXCEPT ![i] = Idle]
    /\ UNCHANGED <<storeVars, vp, vm, lg, hf, rpc>>

\* the head follower reports a block of one of the forks
Update ==
    /\ \E head \in TrustedHeads :
          UpdateStore(HeaderHash(head), head.number)
    /\ UNCHANGED <<req, vp, vm, lg, hf, rpc>>

\* getBlockHeader(blockOpt) is called: the first step of every operation
\* that takes a block tag
GetBlockHeader(i) == StartOp(i, {"getBlockHeader"})

\* an operation of the provider that takes a block tag arrives
Start(i) == StartOp(i, Ops \ {"getBlockByHash"})

StoreInit ==
    /\ \E head \in TrustedHeads :
          /\ latestBlockNumber = head.number
          /\ blockHashes = [n \in 0..MaxBlock |->
                               IF n = head.number THEN HeaderHash(head)
                                                  ELSE NONE]
    /\ blockHeaders = [h \in HeaderHashes |-> NoHeader]
    /\ blockPromises = [n \in 1..MaxBlock |-> "none"]

Init ==
    /\ StoreInit
    /\ req = [i \in Reqs |-> Idle]
    /\ vp = NoCall
    /\ vm = NoVM
    /\ lg = NoLogs /\ hf = NoUpdate /\ rpc = NoRPC

\* The Trusted-Head Store under update() and getBlockHeader().
Next ==
    \/ Update
    \/ \E i \in Reqs :
          \/ GetBlockHeader(i)
          \/ Resume(i)
          \/ HeaderResponse(i)
          \/ Return(i)

Spec == Init /\ [][Next]_vars

\* The operations of the provider against a store that no update changes.
OpsNext ==
    \E i \in Reqs :
       \/ Start(i)
       \/ StartByHash(i)
       \/ HeaderResponse(i)
       \/ ProofResponse(i)
       \/ BlockResponse(i)
       \/ Return(i)

SpecOps == Init /\ [][OpsNext]_vars

\* the store before any head was learnt, with no request in flight
StoreIdle ==
    /\ latestBlockNumber = 0
    /\ blockHashes = <<>>
    /\ blockHeaders = <<>>
    /\ blockPromises = <<>>
    /\ req = <<>>

(* ------------------------ Execution Engine Adapter -------------------- *)
\* the addresses getVM may meet: those of the world and the zero address
VMAddresses == Addresses \cup {ZERO_ADDR}
\* what the upstream may answer to eth_createAccessList
AccessLists ==
    SeqsUpTo([address : {A1}, storageKeys : SeqsUpTo(Slots, MaxKeys)], 1)
\* the eth_getProof results of the batch
VMProofResponses ==
    [nonce : 0..1, balance : 0..1,
     storageHash : {ZERO_HASH, KECCAK256_RLP_S, S1},
     codeHash : {ZERO_HASH, KECCAK256_NULL_S, keccak256(CODE_1)},
     accountProof : ProofNodes(StateRoots, VMAddresses),
     storageProof : SeqsUpTo(StorageProofEntries, MaxKeys)]

\* An address has the lower-case spelling a and a spelling with upper-case
\* hex digits, Checksummed(a); toLowerCase maps both to a.
Checksummed(a) == a + 1000
toLowerCase(x) == IF x >= 1000 THEN x - 1000 ELSE x

\* lines 729-733: the sender and the target are appended
AugmentAccessList(accessList, from, to) ==
    LET withFrom == Append(accessList, [address |-> from, storageKeys |-> <<>>])
    IN  IF to # NONE /\ ~(\E j \in 1..Len(withFrom) :
                              toLowerCase(withFrom[j].address) = to)
        THEN Append(withFrom, [address |-> to, storageKeys |-> <<>>])
        ELSE withFrom

\* lines 801-807: every entry of storageProof is put into the storage
RECURSIVE PutStorageAccesses(_, _, _, _)
PutStorageAccesses(storage, address, storageAccesses, j) ==
    IF j > Len(storageAccesses) THEN storage
    ELSE PutStorageAccesses(
            [storage EXCEPT ![<<address, storageAccesses[j].key>>] =
                                storageAccesses[j].value],
            address, storageAccesses, j + 1)

\* one iteration of the loop of lines 765-811, for the entry `access` and
\* the pair [accountProof, code] of the batch's responses
InstallEntry(v, access, accountProof, code) ==
    LET isAccountCorrect ==
            verifyProof(access.address, access.storageKeys,
                        v.stateRoot, accountProof)
    IN  IF isAccountCorrect = THROWS
        THEN [v EXCEPT !.pc = "failed", !.kind = "Error",
                       !.reason = "accountProof"]
        ELSE IF isAccountCorrect = "false"
        THEN [v EXCEPT !.pc = "failed", !.kind = "Internal",
                       !.reason = "accountProof"]
        ELSE IF ~verifyCodeHash(code, accountProof.codeHash)
        THEN [v EXCEPT !.pc = "failed", !.kind = "Internal",
                       !.reason = "codeHash"]
        ELSE [v EXCEPT
                !.accounts[access.address] =
                    <<accountProof.nonce, accountProof.balance,
                      accountProof.codeHash>>,
                !.storage = PutStorageAccesses(v.storage, access.address,
                                               accountProof.storageProof, 1),
                !.code[access.address] =
                    IF code # CODE_EMPTY THEN code ELSE @,
                !.i = v.i + 1]

\* getVM(tx, header) is called with a verified header: lines 712-723
CallGetVM ==
    /\ vm.pc = "idle"
    /\ \E from \in {NONE, A2}, to \in {NONE, A1, A2}, stateRoot \in StateRoots :
          vm' = [pc |-> "accessList",
                 from |-> IF from = NONE THEN ZERO_ADDR ELSE from,
                 to |-> to, stateRoot |-> stateRoot,
                 accessList |-> <<>>, i |-> 0,
                 accounts |-> [a \in VMAddresses |-> NULL],
                 storage |-> [k \in VMAddresses \X Slots |-> NONE],
                 code |-> [a \in VMAddresses |-> NONE],
                 kind |-> "none", reason |-> "none"]
    /\ UNCHANGED <<storeVars, req, vp, lg, hf, rpc>>

\* the upstream answers eth_createAccessList; the batch of eth_getProof and
\* eth_getCode requests is sent (lines 725-756)
AccessListResponse ==
    /\ vm.pc = "accessList"
    /\ \/ vm' = [vm EXCEPT !.pc = "failed", !.kind = "Error", !.reason = "rpc"]
       \/ \E accessList \in AccessLists :
             vm' = [vm EXCEPT !.pc = "batch",
                              !.accessList =
                                  AugmentAccessList(accessList, vm.from, vm.to)]
    /\ UNCHANGED <<storeVars, req, vp, lg, hf, rpc>>

\* the upstream answers the batch (lines 757-763)
BatchResponse ==
    /\ vm.pc = "batch"
    /\ \/ vm' = [vm EXCEPT !.pc = "failed", !.kind = "Error", !.reason = "rpc"]
       \/ vm' = [vm EXCEPT !.pc = "loop", !.i = 1]
    /\ UNCHANGED <<storeVars, req, vp, lg, hf, rpc>>

\* one iteration of the loop; the pair of responses of the entry is any
\* pair the upstream may have sent
VerifyAndInstall ==
    /\ vm.pc = "loop"
    /\ vm.i <= Len(vm.accessList)
    /\ \E accountProof \in VMProofResponses, code \in Codes :
          vm' = InstallEntry(vm, vm.accessList[vm.i], accountProof, code)
    /\ UNCHANGED <<storeVars, req, vp, lg, hf, rpc>>

\* vm.stateManager.commit(); return vm
CommitVM ==
    /\ vm.pc = "loop"
    /\ vm.i > Len(vm.accessList)
    /\ vm' = [vm EXCEPT !.pc = "done"]
    /\ UNCHANGED <<storeVars, req, vp, lg, hf, rpc>>

\* the caller is done with the VM, or the request failed
DropVM ==
    /\ vm.pc \in {"done", "failed"}
    /\ vm' = NoVM
    /\ UNCHANGED <<storeVars, req, vp, lg, hf, rpc>>

VMInit == vm = NoVM /\ vp = NoCall /\ lg = NoLogs /\ hf = NoUpdate /\ rpc = NoRPC /\ StoreIdle

VMNext ==
    \/ CallGetVM
    \/ AccessListResponse
    \/ BatchResponse
    \/ VerifyAndInstall
    \/ CommitVM
    \/ DropVM

SpecVM == VMInit /\ [][VMNext]_vars

(* ------------------------------ Log Verifier -------------------------- *)
MaxLogs == 2
\* the logs the upstream may answer to eth_getLogs: logs of the blocks of
\* number 1..MaxBlock, with the hash of the block of that number of either
\* fork; a field that is not concrete (a pending log) is NONE
JSONRPCLogs ==
    {[blockNumber |-> bn,
      blockHash |-> BlockHashOf(fork, IF bn = NONE THEN 1 ELSE bn),
      transactionHash |-> th,
      transactionIndex |-> ti, logIndex |-> li,
      address |-> b.address, topics |-> b.topics, data |-> b.data] :
        bn \in (1..MaxBlock) \cup {NONE},
        fork \in 1..2,
        th \in {TxHash(tx) : tx \in Txs},
        ti \in 0..1, li \in {0, NONE}, b \in LogBodies}
\* what the upstream may answer to eth_getBlockReceipts
ReceiptLists == SeqsUpTo(JSONRPCReceipts, 2)

\* block.transactions.findIndex(tx => hash(tx) === transactionHash)
findIndex(transactions, transactionHash) ==
    LET hits == {j \in 1..Len(transactions) :
                    TxHash(transactions[j]) = transactionHash}
    IN  IF hits = {} THEN 0 - 1
        ELSE (CHOOSE j \in hits : \A k \in hits : j <= k) - 1

\* lines 211-251: the checks of a log before the receipts are needed; the
\* result is "ok" or the check that failed
checkLogInBlock(l, blocks) ==
    IF NONE \in {l.logIndex, l.blockNumber, l.blockHash, l.transactionHash,
                 l.transactionIndex}
    THEN "pending"
    ELSE LET block == blocks[l.blockNumber]
         IN  IF block = NoBlock THEN "blockNotFound"
             ELSE IF HeaderHash(block.header) # l.blockHash THEN "blockHash"
             ELSE IF \/ findIndex(block.transactions, l.transactionHash) = 0 - 1
                     \/ findIndex(block.transactions, l.transactionHash)
                            # l.transactionIndex
             THEN "transactionHash"
             ELSE IF \/ ~isInBloom(block.header.logsBloom, l.address)
                     \/ \E t \in 1..Len(l.topics) :
                           ~isInBloom(block.header.logsBloom, l.topics[t])
             THEN "logsBloom"
             ELSE "ok"

\* mutant: the reconstructed receipt trie is not compared with the header
receiptRootMatches_Mut(receipts, header) == TRUE

\* lines 262-282: the receipt trie is rebuilt and its root compared
receiptRootMatches(receipts, header) ==
    ReceiptRoot(receipts) = header.receiptTrie

\* lines 262-304: the checks of a log against the receipts of its block
checkLogInReceipts(l, block, receipts) ==
    IF ~receiptRootMatches(receipts, block.header) THEN "receiptRoot"
    ELSE LET found == {j \in 1..Len(receipts) :
                          receipts[j].transactionHash = l.transactionHash}
         IN  IF found = {} THEN "receiptNotFound"
             ELSE LET receipt ==
                          receipts[CHOOSE j \in found : \A k \in found : j <= k]
                  IN  IF \E k \in 1..Len(receipt.logs) :
                            /\ receipt.logs[k].address = l.address
                            /\ receipt.logs[k].data = l.data
                            /\ receipt.logs[k].topics = l.topics
                      THEN "ok"
                      ELSE "logNotFound"

FailLogs(g, kind, reason) ==
    [g EXCEPT !.pc = "failed", !.kind = kind, !.reason = reason]

\* no log
NoLog ==
    [blockNumber |-> NONE, blockHash |-> NONE, transactionHash |-> NONE,
     transactionIndex |-> NONE, logIndex |-> NONE,
     address |-> NONE, topics |-> <<>>, data |-> NONE]

\* mutant: a log that fails the checks against the receipts is passed over
VerifyLogWithReceipts_MutSkips(g, l, receipts) ==
    LET block == g.blocks[l.blockNumber]
        result == checkLogInReceipts(l, block, receipts)
    IN  [g EXCEPT !.pc = "loop", !.i = g.i + 1, !.l = NoLog,
                  !.accepted = IF result = "ok" THEN l ELSE @,
                  !.acceptedBlocks = @ \cup {l.blockNumber}]

\* one iteration of the loop of lines 210-305 from the point where the
\* receipts of the block of the log are at hand
VerifyLogWithReceipts(g, l, receipts) ==
    LET block == g.blocks[l.blockNumber]
        result == checkLogInReceipts(l, block, receipts)
    IN  IF result # "ok" THEN FailLogs(g, "Internal", result)
        ELSE [g EXCEPT !.pc = "loop", !.i = g.i + 1, !.l = NoLog,
                       !.accepted = l,
                       !.acceptedBlocks = @ \cup {l.blockNumber}]

\* getLogs(filter) is called: eth_getLogs is sent to the upstream
CallGetLogs ==
    /\ lg.pc = "idle"
    /\ lg' = [pc |-> "logs", length |-> 0, blockNumbers |-> {}, i |-> 0,
              logs |-> <<>>, value |-> <<>>,
              l |-> NoLog, accepted |-> NoLog, acceptedBlocks |-> {},
              blocks |-> [n \in 1..MaxBlock |-> NoBlock],
              blockReceipts |-> <<>>,
              kind |-> "none", reason |-> "none"]
    /\ UNCHANGED <<storeVars, req, vp, vm, hf, rpc>>

\* the upstream answers eth_getLogs (lines 171-192): the response has up to
\* MaxLogs logs, whose concrete block numbers are blockNumbers. The logs
\* themselves are chosen as the loop reads them, one by one; lg.logs is
\* the part of res.result that the loop has read.
LogsResponse ==
    /\ lg.pc = "logs"
    /\ \/ lg' = FailLogs(lg, "Error", "rpc")
       \/ \E length \in 0..MaxLogs, blockNumbers \in SUBSET (1..MaxBlock) :
             /\ Cardinality(blockNumbers) <= length
             /\ lg' = [lg EXCEPT !.pc = "blocks", !.length = length,
                                 !.blockNumbers = blockNumbers]
    /\ UNCHANGED <<storeVars, req, vp, vm, hf, rpc>>

\* lines 195-207: the block of one of the block numbers of the logs is
\* fetched: its header comes from the store, its body from the upstream
FetchBlock ==
    /\ lg.pc = "blocks"
    /\ \E n \in lg.blockNumbers :
          /\ lg.blocks[n] = NoBlock
          /\ \/ lg' = FailLogs(lg, "Error", "rpc")
             \/ \E blockInfo \in BlockInfos :
                   LET r == getBlock([Idle EXCEPT
                                         !.header =
                                             blockHeaders[blockHashes[n]]],
                                     blockInfo)
                   IN  lg' = IF r.pc = "failed"
                             THEN FailLogs(lg, r.kind, r.reason)
                             ELSE [lg EXCEPT !.blocks[n] = r.block]
    /\ UNCHANGED <<storeVars, req, vp, vm, hf, rpc>>

\* every block was fetched: the loop over the logs starts
StartLoop ==
    /\ lg.pc = "blocks"
    /\ \A n \in lg.blockNumbers : lg.blocks[n] # NoBlock
    /\ lg' = [lg EXCEPT !.pc = "loop", !.i = 1]
    /\ UNCHANGED <<storeVars, req, vp, vm, hf, rpc>>

\* one iteration of the loop on the next log of the response, up to the
\* request for the receipts of the block, or to its end if the receipts
\* of the block are cached
VerifyLog ==
    /\ lg.pc = "loop"
    /\ lg.i <= lg.length
    /\ \E l \in JSONRPCLogs :
          /\ l.blockNumber \in lg.blockNumbers \cup {NONE}
          /\ LET result == checkLogInBlock(l, lg.blocks)
                 g == [lg EXCEPT !.logs = Append(@, l)]
             IN  lg' = IF result # "ok"
                       THEN FailLogs(g, "Internal", result)
                       ELSE IF l.blockHash \in DOMAIN lg.blockReceipts
                       THEN VerifyLogWithReceipts(
                               g, l, lg.blockReceipts[l.blockHash])
                       ELSE [g EXCEPT !.pc = "receipts", !.l = l]
    /\ UNCHANGED <<storeVars, req, vp, vm, hf, rpc>>

\* the upstream answers the request for the receipts of the block; they
\* are cached and the iteration goes on
ReceiptsResponse ==
    /\ lg.pc = "receipts"
    /\ \/ lg' = FailLogs(lg, "Error", "rpc")
       \/ \E receipts \in ReceiptLists :
             lg' = VerifyLogWithReceipts(
                      [lg EXCEPT
                          !.blockReceipts = (lg.l.blockHash :> receipts) @@ @],
                      lg.l, receipts)
    /\ UNCHANGED <<storeVars, req, vp, vm, hf, rpc>>

\* every log passed, and every block number of the response was the block
\* number of one of them: line 307 returns res.result
ReturnLogs ==
    /\ lg.pc = "loop"
    /\ lg.i > lg.length
    /\ lg.acceptedBlocks = lg.blockNumbers
    /\ lg' = [lg EXCEPT !.pc = "done", !.value = lg.logs]
    /\ UNCHANGED <<storeVars, req, vp, vm, hf, rpc>>

\* the response (the logs or an error) was sent to the client
LogsSent ==
    /\ lg.pc \in {"done", "failed"}
    /\ lg' = NoLogs
    /\ UNCHANGED <<storeVars, req, vp, vm, hf, rpc>>

\* the store follows fork 1 up to MaxBlock and holds its verified headers
LogsInit ==
    /\ latestBlockNumber = MaxBlock
    /\ blockHashes = [n \in 0..MaxBlock |-> BlockHashOf(1, n)]
    /\ blockHeaders = [h \in HeaderHashes |->
                          IF \E n \in 0..MaxBlock : h = BlockHashOf(1, n)
                          THEN HeaderOf(1, CHOOSE n \in 0..MaxBlock :
                                               h = BlockHashOf(1, n))
                          ELSE NoHeader]
    /\ blockPromises = [n \in 1..MaxBlock |-> "none"]
    /\ req = <<>>
    /\ vp = NoCall
    /\ vm = NoVM
    /\ lg = NoLogs /\ hf = NoUpdate /\ rpc = NoRPC

LogsNext ==
    \/ CallGetLogs
    \/ LogsResponse
    \/ FetchBlock
    \/ StartLoop
    \/ VerifyLog
    \/ ReceiptsResponse
    \/ ReturnLogs
    \/ LogsSent

SpecLogs == LogsInit /\ [][LogsNext]_vars

(* ------------------------- sendRawTransaction ------------------------- *)
\* Raw transactions: the serialization of transaction tx, and bytes that
\* are the serialization of no transaction.
Serialize(tx) == 500 + tx
MALFORMED_TX == 500 + 0
RawTxs == {Serialize(tx) : tx \in Txs} \cup {MALFORMED_TX}
\* TransactionFactory.fromSerializedData(hexToBytes(signedTx)): the decoded
\* transaction; it throws on bytes that are no transaction
isSerializedTx(signedTx) == \E tx \in Txs : Serialize(tx) = signedTx
fromSerializedData(signedTx) == CHOOSE tx \in Txs : Serialize(tx) = signedTx
\* what the upstream may reply to eth_sendRawTransaction: a hash, of this
\* transaction or not
SendReplies == {TxHash(tx) : tx \in Txs} \cup {ZERO_HASH}

\* two sendRawTransaction requests run side by side
SendReqs == {1, 2}
NoSend ==
    [op |-> "none", pc |-> "idle", signedTx |-> NONE, reply |-> NONE,
     value |-> NONE, kind |-> "none", reason |-> "none"]

\* mutant: the hash the upstream replied with is returned
sendRawTransactionResult_Mut(r, reply) ==
    [r EXCEPT !.pc = "done", !.reply = reply, !.value = reply]

\* lines 556-558: the transaction is decoded and its hash returned
sendRawTransactionResult(r, reply) ==
    IF ~isSerializedTx(r.signedTx)
    THEN [r EXCEPT !.pc = "failed", !.reply = reply, !.kind = "Error",
                   !.reason = "decode"]
    ELSE [r EXCEPT !.pc = "done", !.reply = reply,
                   !.value = TxHash(fromSerializedData(r.signedTx))]

\* sendRawTransaction(signedTx) is called: the raw transaction is forwarded
SendRawTransaction(i) ==
    /\ req[i].pc = "idle"
    /\ \E signedTx \in RawTxs :
          req' = [req EXCEPT ![i] =
                     [NoSend EXCEPT !.op = "sendRawTransaction",
                                    !.pc = "send", !.signedTx = signedTx]]
    /\ UNCHANGED <<storeVars, vp, vm, lg, hf, rpc>>

\* the upstream answers eth_sendRawTransaction, or the request fails
SendResponse(i) ==
    /\ req[i].pc = "send"
    /\ \/ req' = [req EXCEPT ![i] =
                     [req[i] EXCEPT !.pc = "failed", !.kind = "Error",
                                    !.reason = "rpc"]]
       \/ \E reply \in SendReplies :
             req' = [req EXCEPT ![i] = sendRawTransactionResult(req[i], reply)]
    /\ UNCHANGED <<storeVars, vp, vm, lg, hf, rpc>>

\* the response (the hash or an error) was sent to the client
SendReturn(i) ==
    /\ req[i].pc \in {"done", "failed"}
    /\ req' = [req EXCEPT ![i] = NoSend]
    /\ UNCHANGED <<storeVars, vp, vm, lg, hf, rpc>>

SendInit ==
    /\ StoreInit
    /\ req = [i \in SendReqs |-> NoSend]
    /\ vp = NoCall
    /\ vm = NoVM
    /\ lg = NoLogs /\ hf = NoUpdate /\ rpc = NoRPC

SendNext ==
    \E i \in SendReqs :
       \/ SendRawTransaction(i)
       \/ SendResponse(i)
       \/ SendReturn(i)

SpecSend == SendInit /\ [][SendNext]_vars

(* ------------------------- waitForBlockNumber ------------------------- *)
\* two requests run side by side
WaitReqs == {1, 2}

\* getBlockHeader(blockOpt) is called with the number of a block above the
\* head: waitForBlockNumber suspends it (lines 657-671)
GetFutureBlockHeader(i) ==
    /\ StartOp(i, {"getBlockHeader"})
    /\ req'[i].pc = "wait"

\* the head follower reports a block of fork 1
UpdateOnFork ==
    /\ Update
    /\ blockHashes'[latestBlockNumber'] = BlockHashOf(1, latestBlockNumber')

WaitInit ==
    /\ StoreInit
    /\ blockHashes[latestBlockNumber] = BlockHashOf(1, latestBlockNumber)
    /\ req = [i \in WaitReqs |-> Idle]
    /\ vp = NoCall
    /\ vm = NoVM
    /\ lg = NoLogs /\ hf = NoUpdate /\ rpc = NoRPC

\* The head store under update() and requests for blocks above the head.
WaitNext ==
    \/ UpdateOnFork
    \/ \E i \in WaitReqs :
          \/ GetFutureBlockHeader(i)
          \/ Resume(i)
          \/ HeaderResponse(i)
          \/ Return(i)

SpecWait == WaitInit /\ [][WaitNext]_vars

\* a continuation whose promise was resolved is run
SpecWaitFair ==
    SpecWait /\ \A i \in WaitReqs : WF_vars(Resume(i))

(* ---------------------------- head follower --------------------------- *)
\* update(blockHash, blockNumber) as the head follower calls it; hf keeps
\* the arguments of the call and whether the call before it named the same
\* number with another hash
FollowerUpdate ==
    /\ \E head \in TrustedHeads :
          /\ UpdateStore(HeaderHash(head), head.number)
          /\ hf' = [called |-> TRUE,
                    blockHash |-> HeaderHash(head),
                    blockNumber |-> head.number,
                    reorg |-> /\ hf.called
                              /\ hf.blockNumber = head.number
                              /\ hf.blockHash # HeaderHash(head)]
    /\ UNCHANGED <<req, vp, vm, lg, rpc>>

\* The store under the head follower's calls and getBlockHeader().
ReorgNext ==
    \/ FollowerUpdate
    \/ \E i \in Reqs :
          \/ GetBlockHeader(i)
          \/ Resume(i)
          \/ HeaderResponse(i)
          \/ Return(i)

SpecReorg == Init /\ [][ReorgNext]_vars

(* -------------------------- block-tag resolution ---------------------- *)
\* getBlockHeader(blockOpt), lines 650-653, for stores whose head is far
\* enough from block 0 for MAX_BLOCK_HISTORY to matter: the resolution of
\* the tag, the wait for a future block, and the entry into getBlockHash
\* (pc "hash"; what getBlockHash does from there is HeaderResponse's and
\* ContinueWalk's matter).
TagLatests ==
    {0, MaxBlock, MAX_BLOCK_HISTORY, MAX_BLOCK_HISTORY + 1,
     MAX_BLOCK_HISTORY + MaxBlock + 1}
TagNumbers == 0..(MAX_BLOCK_HISTORY + MaxBlock + MAX_BLOCK_FUTURE + 2)
TagOpts ==
    [tag : {"latest", "pending", "earliest", "finalized", "safe"}, n : {0}]
    \cup [tag : {"hex"}, n : TagNumbers]
TagReqs == {1, 2}
TagIdle ==
    [pc |-> "idle", blockOpt |-> [tag |-> "none", n |-> 0], n |-> NONE,
     kind |-> "none", reason |-> "none"]

TagGetBlockHeader(i) ==
    /\ req[i].pc = "idle"
    /\ \E blockOpt \in TagOpts :
          LET r == [TagIdle EXCEPT !.blockOpt = blockOpt]
              n == getBlockNumberByBlockOpt(blockOpt, latestBlockNumber)
          IN  IF n = NONE
              THEN /\ req' = [req EXCEPT ![i] =
                                 Fail(r, "InvalidParams", "blockOpt")]
                   /\ UNCHANGED blockPromises
              ELSE IF n > latestBlockNumber
              THEN /\ req' = [req EXCEPT ![i] = [r EXCEPT !.pc = "wait",
                                                          !.n = n]]
                   /\ blockPromises' =
                         [blockPromises EXCEPT ![n] =
                             IF @ = "none" THEN "pending" ELSE @]
              ELSE /\ req' = [req EXCEPT ![i] = [r EXCEPT !.pc = "hash",
                                                          !.n = n]]
                   /\ UNCHANGED blockPromises
    /\ UNCHANGED <<latestBlockNumber, blockHashes, blockHeaders, vp, vm, lg,
                   hf, rpc>>

\* the request failed, or its getBlockHash and what follows it are over
TagReturn(i) ==
    /\ req[i].pc \in {"failed", "hash"}
    /\ req' = [req EXCEPT ![i] = TagIdle]
    /\ UNCHANGED <<storeVars, vp, vm, lg, hf, rpc>>

TagInit ==
    /\ latestBlockNumber \in TagLatests
    /\ blockHashes = [n \in TagNumbers |->
                         IF n = latestBlockNumber THEN BlockHashOf(1, n)
                                                  ELSE NONE]
    /\ blockHeaders = <<>>
    /\ blockPromises = [n \in TagNumbers |-> "none"]
    /\ req = [i \in TagReqs |-> TagIdle]
    /\ vp = NoCall
    /\ vm = NoVM
    /\ lg = NoLogs /\ hf = NoUpdate /\ rpc = NoRPC

TagNext == \E i \in TagReqs : (TagGetBlockHeader(i) \/ TagReturn(i))

SpecTag == TagInit /\ [][TagNext]_vars

(* ------------------------------ RPC client ---------------------------- *)
\* rpc.t counts the transmissions (_request calls) of the running loop;
\* rpc.sent lists what each of them carried and rpc.res what each returned.
\*
\* What _request(requests) may return, lines 225-240.  The upstream's
\* array answers the sub-requests in an order of its choosing, each with a
\* result or an error; `id` names the sub-request an entry answers.
\* _request keeps the array's order and drops the id.  A transport failure
\* is an error for every position.
Range(s) == {s[j] : j \in DOMAIN s}
Perms(s) ==
    {p \in [DOMAIN s -> Range(s)] : \A j, k \in DOMAIN s : p[j] = p[k] => j = k}
UpstreamReplies(requests) ==
    {[j \in DOMAIN requests |-> [id |-> p[j], success |-> b[j]]] :
        p \in Perms(requests), b \in [DOMAIN requests -> BOOLEAN]}

\* mutant: the loop runs while i >= 0
retryRequestLoop_Mut(r, res) ==
    LET r1 == [r EXCEPT !.res = Append(@, res)]
    IN  IF res[1].success
        THEN [r1 EXCEPT !.pc = "done", !.value = <<res[1]>>]
        ELSE IF r.t <= RETRY
        THEN [r1 EXCEPT !.t = @ + 1, !.sent = Append(@, r.requestsLeft)]
        ELSE [r1 EXCEPT !.pc = "failed", !.kind = "Error"]

\* mutant: after the last failed attempt the loop returns that response
retryRequestLoop_MutReturnsLast(r, res) ==
    LET r1 == [r EXCEPT !.res = Append(@, res)]
    IN  IF res[1].success
        THEN [r1 EXCEPT !.pc = "done", !.value = <<res[1]>>]
        ELSE IF r.t < RETRY
        THEN [r1 EXCEPT !.t = @ + 1, !.sent = Append(@, r.requestsLeft)]
        ELSE [r1 EXCEPT !.pc = "done", !.value = <<res[1]>>]

\* _retryRequest's loop, lines 173-186, from the return of _request to
\* the next _request, the return or the throw
retryRequestLoop(r, res) ==
    LET r1 == [r EXCEPT !.res = Append(@, res)]
    IN  IF res[1].success
        THEN [r1 EXCEPT !.pc = "done", !.value = <<res[1]>>]
        ELSE IF r.t < RETRY
        THEN [r1 EXCEPT !.t = @ + 1, !.sent = Append(@, r.requestsLeft)]
        ELSE [r1 EXCEPT !.pc = "failed", !.kind = "Error"]

\* res.forEach of _retryBatch, lines 205-211, from position i on
RECURSIVE storeResults(_, _, _, _)
storeResults(results, requestsLeft, res, i) ==
    IF i > Len(res) THEN results
    ELSE storeResults(IF res[i].success
                      THEN [results EXCEPT ![requestsLeft[i]] = res[i]]
                      ELSE results,
                      requestsLeft, res, i + 1)
RECURSIVE nextRequests(_, _, _)
nextRequests(requestsLeft, res, i) ==
    IF i > Len(res) THEN <<>>
    ELSE (IF res[i].success THEN <<>> ELSE <<requestsLeft[i]>>)
         \o nextRequests(requestsLeft, res, i + 1)

\* lines 216-222: the end of _retryBatch
retryBatchEnd(r) ==
    LET failedRequests ==
           [j \in DOMAIN r.requestsRaw |->
               r.results[r.requestsRaw[j]] = NoResponse]
    IN  IF Len(failedRequests) > 0
        THEN [r EXCEPT !.pc = "failed", !.kind = "Error"]
        ELSE [r EXCEPT !.pc = "done",
                       !.value = [j \in DOMAIN r.requestsRaw |->
                                     r.results[r.requestsRaw[j]]]]

\* _retryBatch's loop, lines 203-214, from the return of _request to the
\* next _request or the end of the loop
retryBatchLoop(r, res) ==
    LET next == nextRequests(r.requestsLeft, res, 1)
        r1 == [r EXCEPT !.res = Append(@, res),
                        !.results = storeResults(@, r.requestsLeft, res, 1)]
    IN  IF Len(next) = 0 THEN retryBatchEnd(r1)
        ELSE IF r.t < RETRY
        THEN [r1 EXCEPT !.requestsLeft = next, !.t = @ + 1,
                        !.sent = Append(@, next)]
        ELSE retryBatchEnd([r1 EXCEPT !.requestsLeft = next])

\* _retryRequest(request) is called: up to its first _request
RetryRequest ==
    /\ rpc.pc = "idle"
    /\ rpc' = [NoRPC EXCEPT !.op = "request", !.pc = "sent",
                            !.requestsRaw = <<1>>, !.requestsLeft = <<1>>,
                            !.t = 1, !.sent = <<<<1>>>>]
    /\ UNCHANGED <<storeVars, req, vp, vm, lg, hf>>

\* _retryBatch(requests) is called with 1..MaxBatch sub-requests
RetryBatch ==
    /\ rpc.pc = "idle"
    /\ \E size \in 1..MaxBatch :
          LET requestsRaw == [j \in 1..size |-> j]
          IN  rpc' = [NoRPC EXCEPT !.op = "batch", !.pc = "sent",
                                   !.requestsRaw = requestsRaw,
                                   !.requestsLeft = requestsRaw,
                                   !.t = 1, !.sent = <<requestsRaw>>]
    /\ UNCHANGED <<storeVars, req, vp, vm, lg, hf>>

\* _request returns: the upstream answered, or the transport failed
RpcResponse ==
    /\ rpc.pc = "sent"
    /\ \E res \in UpstreamReplies(rpc.requestsLeft) :
          rpc' = IF rpc.op = "request" THEN retryRequestLoop(rpc, res)
                                       ELSE retryBatchLoop(rpc, res)
    /\ UNCHANGED <<storeVars, req, vp, vm, lg, hf>>

\* the call returned or threw
RpcReturn ==
    /\ rpc.pc \in {"done", "failed"}
    /\ rpc' = NoRPC
    /\ UNCHANGED <<storeVars, req, vp, vm, lg, hf>>

RetryInit ==
    /\ StoreIdle
    /\ vp = NoCall
    /\ vm = NoVM
    /\ lg = NoLogs /\ hf = NoUpdate /\ rpc = NoRPC

RetryNext == RetryRequest \/ RetryBatch \/ RpcResponse \/ RpcReturn

SpecRetry == RetryInit /\ [][RetryNext]_vars

(* ---------------------- RPC.request / RPC.requestBatch ---------------- *)
\* The public operations of the RPC client, lines 134-162.  rpc.inner is
\* the running _retryRequest / _retryBatch call; rpc.queue holds the
\* chunks (or single requests) still to be sent, rpc.out the responses
\* collected so far; rpc.log and rpc.replies list every transmission of
\* the operation and what came back for it.
Methods == {"eth_getProof", "eth_getCode"}
ProviderConfigs ==
    [unsupportedMethods : {{}, {"eth_getCode"}},
     supportBatchRequests : BOOLEAN,
     batchSize : {NONE, 1}]
RPCIdle(provider) ==
    [provider |-> provider, call |-> "none", pc |-> "idle",
     requests |-> <<>>, queue |-> <<>>, out |-> <<>>, log |-> <<>>,
     replies |-> <<>>, reason |-> "none", inner |-> NoRPC]

\* _.chunk(requests, size)
RECURSIVE chunk(_, _)
chunk(s, size) ==
    IF Len(s) = 0 THEN <<>>
    ELSE IF Len(s) <= size THEN <<s>>
    ELSE <<SubSeq(s, 1, size)>> \o chunk(SubSeq(s, size + 1, Len(s)), size)

\* _retryRequest / _retryBatch up to the first _request
retryRequestStart(id) ==
    [NoRPC EXCEPT !.op = "request", !.pc = "sent", !.requestsRaw = <<id>>,
                  !.requestsLeft = <<id>>, !.t = 1, !.sent = <<<<id>>>>]
retryBatchStart(ids) ==
    [NoRPC EXCEPT !.op = "batch", !.pc = "sent", !.requestsRaw = ids,
                  !.requestsLeft = ids, !.t = 1, !.sent = <<ids>>]

\* mutant: the loop takes the last request of the list first
requestBatchLoop_Mut(r) ==
    IF Len(r.queue) = 0 THEN [r EXCEPT !.pc = "done", !.inner = NoRPC]
    ELSE LET next == r.queue[Len(r.queue)]
         IN  [r EXCEPT !.queue = SubSeq(@, 1, Len(@) - 1),
                       !.log = Append(@, next),
                       !.inner = IF r.provider.supportBatchRequests
                                 THEN retryBatchStart(next)
                                 ELSE retryRequestStart(next[1])]

\* the loop of requestBatch reaches the next chunk (lines 148-151) or the
\* next request (lines 155-158), or returns
requestBatchLoop(r) ==
    IF Len(r.queue) = 0 THEN [r EXCEPT !.pc = "done", !.inner = NoRPC]
    ELSE LET next == Head(r.queue)
         IN  [r EXCEPT !.queue = Tail(@),
                       !.log = Append(@, next),
                       !.inner = IF r.provider.supportBatchRequests
                                 THEN retryBatchStart(next)
                                 ELSE retryRequestStart(next[1])]

\* mutant: only the first request of the list is looked at
includesUnsupportedMethod_Mut(provider, requests) ==
    Len(requests) > 0 /\ requests[1] \in provider.unsupportedMethods

\* lines 135 and 142: the method of some request is in unsupportedMethods
includesUnsupportedMethod(provider, requests) ==
    \E j \in DOMAIN requests : requests[j] \in provider.unsupportedMethods

\* request(request), lines 134-139
Request ==
    /\ rpc.pc = "idle"
    /\ \E method \in Methods :
          LET r == [rpc EXCEPT !.call = "request", !.requests = <<method>>]
          IN  rpc' = IF includesUnsupportedMethod(rpc.provider, <<method>>)
                     THEN [r EXCEPT !.pc = "failed",
                                    !.reason = "method not supported by the provider"]
                     ELSE [r EXCEPT !.pc = "running", !.log = <<<<1>>>>,
                                    !.inner = retryRequestStart(1)]
    /\ UNCHANGED <<storeVars, req, vp, vm, lg, hf>>

\* requestBatch(requests), lines 141-162, up to the first _request
RequestBatch ==
    /\ rpc.pc = "idle"
    /\ \E requests \in UNION {[1..n -> Methods] : n \in 0..MaxBatch} :
          LET r == [rpc EXCEPT !.call = "requestBatch",
                               !.requests = requests]
              ids == [j \in DOMAIN requests |-> j]
              size == IF rpc.provider.batchSize = NONE
                      THEN REQUEST_BATCH_SIZE ELSE rpc.provider.batchSize
          IN  rpc' =
                 IF includesUnsupportedMethod(rpc.provider, requests)
                 THEN [r EXCEPT !.pc = "failed",
                                !.reason = "method not supported by the provider"]
                 ELSE requestBatchLoop(
                         [r EXCEPT !.pc = "running",
                                   !.queue =
                                      IF rpc.provider.supportBatchRequests
                                      THEN chunk(ids, size)
                                      ELSE [j \in DOMAIN ids |-> <<ids[j]>>]])
    /\ UNCHANGED <<storeVars, req, vp, vm, lg, hf>>

\* _request returns inside the running _retryRequest / _retryBatch, and
\* the operation goes on to its next _request, its return or its throw
RPCResponse ==
    /\ rpc.pc = "running"
    /\ \E res \in UpstreamReplies(rpc.inner.requestsLeft) :
          LET inner == IF rpc.inner.op = "request"
                       THEN retryRequestLoop(rpc.inner, res)
                       ELSE retryBatchLoop(rpc.inner, res)
              r == [rpc EXCEPT !.replies = Append(@, res), !.inner = inner]
          IN  rpc' =
                 IF inner.pc = "sent"
                 THEN [r EXCEPT !.log = Append(@, inner.requestsLeft)]
                 ELSE IF inner.pc = "failed"
                 THEN [r EXCEPT !.pc = "failed",
                                !.reason = "RPC request failed"]
                 ELSE IF rpc.call = "request"
                 THEN [r EXCEPT !.pc = "done", !.out = inner.value]
                 ELSE requestBatchLoop([r EXCEPT !.out = @ \o inner.value])
    /\ UNCHANGED <<storeVars, req, vp, vm, lg, hf>>

\* the operation returned or threw
RPCReturn ==
    /\ rpc.pc \in {"done", "failed"}
    /\ rpc' = RPCIdle(rpc.provider)
    /\ UNCHANGED <<storeVars, req, vp, vm, lg, hf>>

RPCInit ==
    /\ StoreIdle
    /\ vp = NoCall
    /\ vm = NoVM
    /\ lg = NoLogs /\ hf = NoUpdate
    /\ \E provider \in ProviderConfigs : rpc = RPCIdle(provider)

RPCNext == Request \/ RequestBatch \/ RPCResponse \/ RPCReturn

SpecRPC == RPCInit /\ [][RPCNext]_vars

(* ------------------- getBalance over the RPC client ------------------- *)
\* getBalance with its eth_getProof request carried by RPC.request and its
\* retry loop: lines 140-159 of the provider.  The header comes as in
\* StartOp and HeaderResponse.

\* line 142: the continuation after getBlockHeader calls rpc.request
SendGetProof(i) ==
    /\ req[i].pc = "proof"
    /\ rpc.pc = "idle"
    /\ rpc' = IF includesUnsupportedMethod(rpc.provider, <<"eth_getProof">>)
              THEN [rpc EXCEPT !.call = "request",
                               !.requests = <<"eth_getProof">>,
                               !.pc = "failed",
                               !.reason = "method not supported by the provider"]
              ELSE [rpc EXCEPT !.call = "request",
                               !.requests = <<"eth_getProof">>,
                               !.pc = "running", !.log = <<<<1>>>>,
                               !.inner = retryRequestStart(1)]
    /\ req' = [req EXCEPT ![i].pc = "rpc"]
    /\ UNCHANGED <<storeVars, vp, vm, lg, hf>>

\* rpc.request returned or threw: lines 146-159.  An exception of
\* rpc.request is not caught and leaves getBalance as it is.
GetProofReturn(i) ==
    /\ req[i].pc = "rpc"
    /\ rpc.pc \in {"done", "failed"}
    /\ IF rpc.pc = "failed"
       THEN req' = [req EXCEPT ![i] = Fail(req[i], "Error", rpc.reason)]
       ELSE IF ~rpc.out[1].success
       THEN req' = [req EXCEPT ![i] =
                       Fail(req[i], "Internal", "RPC request failed")]
       ELSE \E proof \in AccountProofResponses :
               req' = [req EXCEPT ![i] = AccountResult(req[i], proof, NONE)]
    /\ rpc' = RPCIdle(rpc.provider)
    /\ UNCHANGED <<storeVars, vp, vm, lg, hf>>

BalanceInit ==
    /\ StoreInit
    /\ req = [i \in Reqs |-> Idle]
    /\ vp = NoCall
    /\ vm = NoVM
    /\ lg = NoLogs /\ hf = NoUpdate
    /\ \E provider \in ProviderConfigs : rpc = RPCIdle(provider)

BalanceNext ==
    \/ RPCResponse
    \/ \E i \in Reqs :
          \/ StartOp(i, {"getBalance"})
          \/ HeaderResponse(i)
          \/ SendGetProof(i)
          \/ GetProofReturn(i)
          \/ Return(i)

SpecBalance == BalanceInit /\ [][BalanceNext]_vars

(* --------------------------- call / estimateGas ----------------------- *)
\* call and estimateGas, lines 417-526, by their stages: validateTx, the
\* resolution of the block tag and the wait for a future block (as in
\* StartOp), the verified header, getVM, and the run of the EVM.  How a
\* header is fetched and verified and how getVM builds its state are the
\* matter of HeaderResponse and of CallGetVM .. CommitVM; here each of the
\* two either fails or delivers.
FeeValues == {NONE, 1, 2}
RPCTxs ==
    [gasPrice : FeeValues, maxFeePerGas : FeeValues,
     maxPriorityFeePerGas : FeeValues]
NoExec == [exceptionError |-> "none", returnValue |-> NONE]
\* what vm.evm.runCall / vm.runTx may do: throw, or return a result whose
\* execResult reports how the execution ended
EVMResults ==
    {[thrown |-> TRUE, execResult |-> NoExec, totalGasSpent |-> NONE]}
    \cup {[thrown |-> FALSE, execResult |-> e, totalGasSpent |-> 1] :
             e \in [exceptionError : {"none", "revert", "out of gas"},
                    returnValue : {0, 1}]}
CallReqs == {1}
CallIdle ==
    [op |-> "none", pc |-> "idle", tx |-> [gasPrice |-> NONE,
     maxFeePerGas |-> NONE, maxPriorityFeePerGas |-> NONE],
     blockOpt |-> [tag |-> "none", n |-> 0], n |-> NONE, exec |-> NoExec,
     value |-> NONE, kind |-> "none", reason |-> "none"]

\* mutant: the two maximum fees are not compared
validateTx_Mut(tx) ==
    IF tx.gasPrice # NONE /\ tx.maxFeePerGas # NONE
    THEN "Cannot send both gasPrice and maxFeePerGas params"
    ELSE IF tx.gasPrice # NONE /\ tx.maxPriorityFeePerGas # NONE
    THEN "Cannot send both gasPrice and maxPriorityFeePerGas"
    ELSE "ok"

\* validateTx(tx), lines 600-618: "ok" or the message of the Error thrown
validateTx(tx) ==
    IF tx.gasPrice # NONE /\ tx.maxFeePerGas # NONE
    THEN "Cannot send both gasPrice and maxFeePerGas params"
    ELSE IF tx.gasPrice # NONE /\ tx.maxPriorityFeePerGas # NONE
    THEN "Cannot send both gasPrice and maxPriorityFeePerGas"
    ELSE IF /\ tx.maxFeePerGas # NONE /\ tx.maxPriorityFeePerGas # NONE
            /\ tx.maxPriorityFeePerGas > tx.maxFeePerGas
    THEN "maxPriorityFeePerGas is bigger than maxFeePerGas"
    ELSE "ok"

\* call / estimateGas arrive: validateTx, then getBlockHeader(blockOpt) up
\* to its first suspension
CallStart(i) ==
    /\ req[i].pc = "idle"
    /\ \E op \in {"call", "estimateGas"}, tx \in RPCTxs,
          blockOpt \in BlockOpts :
          LET r == [CallIdle EXCEPT !.op = op, !.tx = tx,
                                    !.blockOpt = blockOpt]
              n == getBlockNumberByBlockOpt(blockOpt, latestBlockNumber)
          IN  IF validateTx(tx) # "ok"
              THEN /\ req' = [req EXCEPT ![i] =
                                 Fail(r, "InvalidParams", validateTx(tx))]
                   /\ UNCHANGED blockPromises
              ELSE IF n = NONE
              THEN /\ req' = [req EXCEPT ![i] =
                                 Fail(r, "InvalidParams", "blockOpt")]
                   /\ UNCHANGED blockPromises
              ELSE IF n > latestBlockNumber
              THEN /\ n <= MaxBlock
                   /\ req' = [req EXCEPT ![i] = [r EXCEPT !.pc = "wait",
                                                          !.n = n]]
                   /\ blockPromises' =
                         [blockPromises EXCEPT ![n] =
                             IF @ = "none" THEN "pending" ELSE @]
              ELSE /\ req' = [req EXCEPT ![i] = [r EXCEPT !.pc = "header",
                                                          !.n = n]]
                   /\ UNCHANGED blockPromises
    /\ UNCHANGED <<latestBlockNumber, blockHashes, blockHeaders, vp, vm, lg,
                   hf, rpc>>

\* getBlockHeader delivers the verified header or fails; estimateGas then
\* builds its transaction (TransactionFactory.fromTxData may throw)
CallHeader(i) ==
    /\ req[i].pc = "header"
    /\ \/ \E kind \in {"Error", "Internal"} :
             req' = [req EXCEPT ![i] = Fail(req[i], kind, "header")]
       \/ /\ req[i].op = "estimateGas"
          /\ req' = [req EXCEPT ![i] = Fail(req[i], "Error", "fromTxData")]
       \/ req' = [req EXCEPT ![i].pc = "vm"]
    /\ UNCHANGED <<storeVars, vp, vm, lg, hf, rpc>>

\* getVM delivers the VM or fails
CallVM(i) ==
    /\ req[i].pc = "vm"
    /\ \/ \E kind \in {"Error", "Internal"} :
             req' = [req EXCEPT ![i] = Fail(req[i], kind, "getVM")]
       \/ req' = [req EXCEPT ![i].pc = "run"]
    /\ UNCHANGED <<storeVars, vp, vm, lg, hf, rpc>>

\* lines 435-450 (call) and 512-523 (estimateGas): the try block around
\* the run of the EVM
callResult(r, result) ==
    IF result.thrown THEN Fail(r, "Internal", "evm")
    ELSE [r EXCEPT !.pc = "done", !.exec = result.execResult,
                   !.value = IF r.op = "call"
                             THEN result.execResult.returnValue
                             ELSE result.totalGasSpent]

\* vm.evm.runCall / vm.runTx ends
RunCall(i) ==
    /\ req[i].pc = "run"
    /\ \E result \in EVMResults :
          req' = [req EXCEPT ![i] = callResult(req[i], result)]
    /\ UNCHANGED <<storeVars, vp, vm, lg, hf, rpc>>

CallReturn(i) ==
    /\ req[i].pc \in {"done", "failed"}
    /\ req' = [req EXCEPT ![i] = CallIdle]
    /\ UNCHANGED <<storeVars, vp, vm, lg, hf, rpc>>

CallInit ==
    /\ StoreInit
    /\ req = [i \in CallReqs |-> CallIdle]
    /\ vp = NoCall
    /\ vm = NoVM
    /\ lg = NoLogs /\ hf = NoUpdate /\ rpc = NoRPC

CallNext ==
    \E i \in CallReqs :
       \/ CallStart(i)
       \/ CallHeader(i)
       \/ CallVM(i)
       \/ RunCall(i)
       \/ CallReturn(i)

SpecCall == CallInit /\ [][CallNext]_vars

(* ----------------------- getTransactionReceipt ------------------------ *)
\* lines 561-598. The receipt the upstream answers carries the number and
\* the hash of the block it claims, an index and a status; all of them are
\* the upstream's choice. blockNumber is what getBlockHeader is given, so
\* it is any block option.
TxHashes == {TxHash(tx) : tx \in Txs}
UpstreamReceipts ==
    [transactionHash : TxHashes, transactionIndex : 0..1,
     blockHash : {BlockHashOf(1, 1), BlockHashOf(2, 1)},
     blockNumber : BlockOpts, status : {0, 1}]

\* getTransactionReceipt(txHash) up to the await of rpc.request
GetTransactionReceipt(i) ==
    /\ req[i].pc = "idle"
    /\ \E txHash \in TxHashes :
          req' = [req EXCEPT ![i] =
                     [Idle EXCEPT !.op = "getTransactionReceipt",
                                  !.txHash = txHash, !.pc = "receipt"]]
    /\ UNCHANGED <<storeVars, vp, vm, lg, hf, rpc>>

\* lines 562-569: rpc.request threw, or the upstream has no receipt (null
\* is returned), or it has one: getBlockHeader(receipt.blockNumber)
ReceiptResponse(i) ==
    /\ req[i].pc = "receipt"
    /\ \/ /\ req' = [req EXCEPT ![i] = Fail(req[i], "Error", "rpc")]
          /\ UNCHANGED <<storeVars, vp, vm, lg, hf, rpc>>
       \/ /\ req' = [req EXCEPT ![i] = [req[i] EXCEPT !.pc = "done"]]
          /\ UNCHANGED <<storeVars, vp, vm, lg, hf, rpc>>
       \/ \E receipt \in UpstreamReceipts :
             getBlockHeader(i, [req[i] EXCEPT !.receipt = receipt],
                            receipt.blockNumber)

\* mutant: blockHash and transactionIndex are copied from the upstream
receiptResult_Mut(r, block) ==
    LET index == findIndex(block.transactions, r.txHash)
    IN  IF index = 0 - 1
        THEN Fail([r EXCEPT !.block = block], "Internal", "receipt")
        ELSE [r EXCEPT
                 !.pc = "done", !.block = block,
                 !.result = [transactionHash |-> r.txHash,
                             transactionIndex |-> r.receipt.transactionIndex,
                             blockHash |-> r.receipt.blockHash,
                             blockNumber |->
                                [tag |-> "hex", n |-> block.header.number],
                             status |-> r.receipt.status]]

\* lines 571-597 on the block getBlock returned: the transaction is looked
\* up by its hash and the receipt is built from the block
receiptResult(r, block) ==
    LET index == findIndex(block.transactions, r.txHash)
    IN  IF index = 0 - 1
        THEN Fail([r EXCEPT !.block = block], "Internal", "receipt")
        ELSE [r EXCEPT
                 !.pc = "done", !.block = block,
                 !.result = [transactionHash |-> r.txHash,
                             transactionIndex |-> index,
                             blockHash |-> HeaderHash(block.header),
                             blockNumber |->
                                [tag |-> "hex", n |-> block.header.number],
                             status |-> IF r.receipt.status # 0 THEN 1
                                                                ELSE 0]]

\* the upstream answers getBlock's eth_getBlockByNumber; lines 570-597
ReceiptBlockResponse(i) ==
    /\ req[i].pc = "block"
    /\ req[i].op = "getTransactionReceipt"
    /\ \/ req' = [req EXCEPT ![i] = Fail(req[i], "Error", "rpc")]
       \/ \E blockInfo \in BlockInfos :
             LET g == getBlock(req[i], blockInfo)
             IN  req' = [req EXCEPT ![i] =
                            IF g.pc = "done"
                            THEN receiptResult(req[i], blockInfo)
                            ELSE g]
    /\ UNCHANGED <<storeVars, vp, vm, lg, hf, rpc>>

ReceiptNext ==
    \E i \in Reqs :
       \/ GetTransactionReceipt(i)
       \/ ReceiptResponse(i)
       \/ HeaderResponse(i)
       \/ ReceiptBlockResponse(i)
       \/ Return(i)

SpecReceipt == Init /\ [][ReceiptNext]_vars

(* ------------------------ blocks with uncles -------------------------- *)
\* The blockInfo of eth_getBlockByNumber lists the hashes of the uncles of
\* the block next to its header fields and its transactions.
UncleLists == {<<>>, <<BlockHashOf(3, 1)>>}
Web3Blocks ==
    [header : ForkHeaders, transactions : TxSeqs, uncles : UncleLists]

\* line 631: the block data that Block.fromBlockData is given are the
\* header fields and the transactions of blockInfo; the uncle headers are
\* not fetched (lines 629-630), so the block is built without uncles
blockDataFromWeb3Response(blockInfo) ==
    [header |-> blockInfo.header, transactions |-> blockInfo.transactions]

\* lines 533, 541: toJSONRPCBlock(block, BigInt(0), [], includeTransactions);
\* the list of uncle hashes of the JSON block is the third argument
toJSONRPCBlock(block, uncleHashes) ==
    [header |-> block.header, transactions |-> block.transactions,
     uncles |-> uncleHashes]

\* getBlockByNumber after getBlock's upstream request: lines 538-541 with
\* getBlock, lines 626-647
getBlockByNumberResult(r, blockInfo) ==
    LET g == getBlock([r EXCEPT !.uncles = blockInfo.uncles],
                      blockDataFromWeb3Response(blockInfo))
    IN  IF g.pc = "done"
        THEN [g EXCEPT !.json = toJSONRPCBlock(g.block, <<>>)]
        ELSE g

\* the upstream answers eth_getBlockByNumber(header.number, true) with a
\* block that may list uncles
Web3BlockResponse(i) ==
    /\ req[i].pc = "block"
    /\ req[i].op = "getBlockByNumber"
    /\ \/ req' = [req EXCEPT ![i] = Fail(req[i], "Error", "rpc")]
       \/ \E blockInfo \in Web3Blocks :
             req' = [req EXCEPT ![i] = getBlockByNumberResult(req[i],
                                                              blockInfo)]
    /\ UNCHANGED <<storeVars, vp, vm, lg, hf, rpc>>

UnclesNext ==
    \E i \in Reqs :
       \/ StartOp(i, {"getBlockByNumber"})
       \/ HeaderResponse(i)
       \/ Web3BlockResponse(i)
       \/ Return(i)

SpecUncles == Init /\ [][UnclesNext]_vars

(* ------------------- the validators of the server --------------------- *)
\* src/src/validation.ts. A parameter of a JSON-RPC request is told apart
\* by what the validators read of it: its JS type and, for a string,
\* whether it is one of a few words or "0x" followed by `len` characters
\* that are all hex digits (hex) or not.
HexLens == {0, 1, 6, 40, 63, 64, 65}
Words == {"latest", "earliest", "pending", "finalized", "f297c5", ""}
ParamValues ==
    {[type |-> t, word |-> "", len |-> 0, hex |-> FALSE] :
        t \in {"undefined", "number"}}
    \cup {[type |-> "string", word |-> w, len |-> 0, hex |-> FALSE] :
             w \in Words}
    \cup {p \in [type : {"string"}, word : {"0x"}, len : HexLens,
                 hex : BOOLEAN] : p.len = 0 => ~p.hex}
Undefined == [type |-> "undefined", word |-> "", len |-> 0, hex |-> FALSE]
\* "0x" and `len` hex digits
HexString(len) == [type |-> "string", word |-> "0x", len |-> len, hex |-> TRUE]

\* params[index] of JS for the 0-based index
Param(params, index) ==
    IF index + 1 \in DOMAIN params THEN params[index + 1] ELSE Undefined
\* if (params[1]): undefined and the empty string are falsy
Truthy(p) == p.type # "undefined" /\ ~(p.type = "string" /\ p.word = "")
\* /^[0-9a-fA-F]+$/.test(rest) for a string that starts with 0x
IsHexDigits(p) == p.len >= 1 /\ p.hex

\* a validator returns undefined or throws InvalidParamsError
\* lines 33-41
hex(p) ==
    IF p.type # "string" THEN "InvalidParams"
    ELSE IF p.word # "0x" THEN "InvalidParams"
    ELSE "undefined"

\* validators.address, lines 12-26
validators_address(p) ==
    IF p.type # "string" THEN "InvalidParams"
    ELSE IF p.word # "0x" THEN "InvalidParams"
    ELSE IF ~IsHexDigits(p) \/ p.len # 40 THEN "InvalidParams"
    ELSE "undefined"

\* lines 48-62
blockHash(p) ==
    IF p.type # "string" THEN "InvalidParams"
    ELSE IF p.word # "0x" THEN "InvalidParams"
    ELSE IF ~IsHexDigits(p) \/ p.len # 64 THEN "InvalidParams"
    ELSE "undefined"

\* lines 68-93: an error thrown by blockHash or hex leaves blockOption
blockOption(p) ==
    IF p.type # "string" THEN "InvalidParams"
    ELSE IF p.word \in {"latest", "earliest", "pending"} THEN "undefined"
    ELSE IF p.word = "0x"
    THEN LET hash == blockHash(p)
         IN  IF hash = "InvalidParams" THEN "InvalidParams"
             ELSE LET integer == hex(p)
                  IN  IF integer = "InvalidParams" THEN "InvalidParams"
                      ELSE IF hash = "undefined" \/ integer = "undefined"
                      THEN "undefined"
                      ELSE "InvalidParams"
    ELSE "InvalidParams"

\* lines 111-115
paramsLength(params, requiredParamsCount) ==
    IF Len(params) < requiredParamsCount THEN "InvalidParams"
                                         ELSE "undefined"

\* the parameter lists of eth_getBalance: none, an address, an address and
\* a block option
GetBalanceParams ==
    {<<>>}
    \cup {<<a>> : a \in {HexString(40), HexString(6)}}
    \cup {<<a, b>> : a \in {HexString(40), HexString(6)}, b \in ParamValues}

ValReqs == {1, 2}
ValIdle ==
    [pc |-> "idle", params |-> <<>>, kind |-> "none", reason |-> "none",
     blockOpt |-> Undefined]

\* src/src/constants.ts lines 21-28, the handler of eth_getBalance up to
\* the await of provider.getBalance(address, blockOpt)
GetBalanceHandler(i) ==
    /\ req[i].pc = "idle"
    /\ \E params \in GetBalanceParams :
          LET r == [ValIdle EXCEPT !.params = params]
              fail(reason) ==
                 [r EXCEPT !.pc = "failed", !.kind = "InvalidParams",
                           !.reason = reason]
          IN  req' = [req EXCEPT ![i] =
                 IF paramsLength(params, 1) = "InvalidParams"
                 THEN fail("paramsLength")
                 ELSE IF validators_address(Param(params, 0)) = "InvalidParams"
                 THEN fail("address")
                 ELSE IF /\ Truthy(Param(params, 1))
                         /\ blockOption(Param(params, 1)) = "InvalidParams"
                 THEN fail("blockOption")
                 ELSE [r EXCEPT !.pc = "provider",
                                !.blockOpt = Param(params, 1)]]
    /\ UNCHANGED <<storeVars, vp, vm, lg, hf, rpc>>

\* provider.getBalance(address, blockOpt) returned a balance or threw
ProviderResult(i) ==
    /\ req[i].pc = "provider"
    /\ \/ req' = [req EXCEPT ![i].pc = "done"]
       \/ \E kind \in {"Internal", "InvalidParams", "Error"} :
             req' = [req EXCEPT ![i].pc = "failed", ![i].kind = kind,
                                ![i].reason = "provider"]
    /\ UNCHANGED <<storeVars, vp, vm, lg, hf, rpc>>

\* the JSON-RPC response was sent
ValReturn(i) ==
    /\ req[i].pc \in {"done", "failed"}
    /\ req' = [req EXCEPT ![i] = ValIdle]
    /\ UNCHANGED <<storeVars, vp, vm, lg, hf, rpc>>

ValInit ==
    /\ StoreInit
    /\ req = [i \in ValReqs |-> ValIdle]
    /\ vp = NoCall /\ vm = NoVM /\ lg = NoLogs /\ hf = NoUpdate
    /\ rpc = NoRPC

ValNext ==
    \E i \in ValReqs :
       \/ GetBalanceHandler(i)
       \/ ProviderResult(i)
       \/ ValReturn(i)

SpecValidate == ValInit /\ [][ValNext]_vars

(* ----------------- the hash map across a deep reorg ------------------- *)
\* The head follower reports the block MaxBlock of fork 1 or of the chain
\* that shares no block with it; every entry below MaxBlock is then one
\* that a getBlockHash walk derived.
DeepReorgHeads == {HeaderOf(1, MaxBlock), HeaderOf(4, MaxBlock)}

DeepReorgUpdate ==
    /\ \E head \in DeepReorgHeads :
          UpdateStore(HeaderHash(head), head.number)
    /\ UNCHANGED <<req, vp, vm, lg, hf, rpc>>

ChainInit ==
    /\ Init
    /\ latestBlockNumber = MaxBlock
    /\ blockHashes[MaxBlock] = BlockHashOf(1, MaxBlock)

ChainNext ==
    \/ DeepReorgUpdate
    \/ \E i \in Reqs :
          \/ GetBlockHeader(i)
          \/ HeaderResponse(i)
          \/ Return(i)

SpecChain == ChainInit /\ [][ChainNext]_vars

(* --------------- the augmentation of the access list ------------------ *)
\* lines 712-733 on every input: the addresses of the transaction and of
\* the upstream's list in both spellings
SpelledAddresses == Addresses \cup {Checksummed(a) : a \in Addresses}
UpstreamAccessLists ==
    SeqsUpTo([address : SpelledAddresses, storageKeys : {<<>>}], 2)
AugmentIdle ==
    [pc |-> "idle", from |-> NONE, to |-> NONE, upstream |-> <<>>,
     accessList |-> <<>>]

\* getVM from `_tx` (from defaults to ZERO_ADDR, line 714) to the end of
\* the augmentation of the list the upstream returned
Augment ==
    /\ vm.pc = "idle"
    /\ \E from \in SpelledAddresses \cup {NONE},
          to \in SpelledAddresses \cup {NONE},
          upstream \in UpstreamAccessLists :
          LET sender == IF from = NONE THEN ZERO_ADDR ELSE from
          IN  vm' = [pc |-> "done", from |-> sender, to |-> to,
                     upstream |-> upstream,
                     accessList |-> AugmentAccessList(upstream, sender, to)]
    /\ UNCHANGED <<storeVars, req, vp, lg, hf, rpc>>

AugmentReturn ==
    /\ vm.pc = "done"
    /\ vm' = AugmentIdle
    /\ UNCHANGED <<storeVars, req, vp, lg, hf, rpc>>

AugmentInit ==
    /\ vm = AugmentIdle /\ vp = NoCall /\ lg = NoLogs /\ hf = NoUpdate
    /\ rpc = NoRPC /\ StoreIdle

AugmentNext == Augment \/ AugmentReturn

SpecAugment == AugmentInit /\ [][AugmentNext]_vars

(* -------------------------- getBlockReceipts -------------------------- *)
\* lines 311-346. The error of an upstream reply has a message; the two
\* messages of the model are told apart by what line 326 looks for.
UpstreamErrors == {"method not supported", "header not found"}
\* error.message.includes('method not supported')
includesMethodNotSupported(message) ==
    message \in {"method not supported",
                 "method not supported by the provider"}
\* what the upstream may answer to the one request of _retryRequest
BlockReceiptsReplies ==
    {[id |-> 1, success |-> TRUE, error |-> "none"]}
    \cup {[id |-> 1, success |-> FALSE, error |-> e] : e \in UpstreamErrors}

BRIdle ==
    [pc |-> "idle", unsupportedMethods |-> {}, message |-> "none",
     fallback |-> FALSE, kind |-> "none"]

\* lines 322-329: the catch clause on an error with this message
catchBlockReceiptsError(r, message) ==
    IF ~includesMethodNotSupported(message)
    THEN [r EXCEPT !.pc = "failed", !.kind = "Error", !.message = message]
    ELSE [r EXCEPT !.pc = "fallback", !.fallback = TRUE,
                   !.message = message]

\* getBlockReceipts(blockHash) up to the first _request of rpc.request
\* (part_004 lines 134-139), on a provider whose configuration lists
\* eth_getBlockReceipts as unsupported or not
GetBlockReceipts(i) ==
    /\ req[i].pc = "idle"
    /\ rpc.pc = "idle"
    /\ \E unsupportedMethods \in {{}, {"eth_getBlockReceipts"}} :
          LET r == [BRIdle EXCEPT !.unsupportedMethods = unsupportedMethods]
          IN  IF "eth_getBlockReceipts" \in unsupportedMethods
              THEN /\ req' = [req EXCEPT ![i] = catchBlockReceiptsError(
                                 r, "method not supported by the provider")]
                   /\ UNCHANGED rpc
              ELSE /\ req' = [req EXCEPT ![i] = [r EXCEPT !.pc = "rpc"]]
                   /\ rpc' = retryRequestStart(1)
    /\ UNCHANGED <<storeVars, vp, vm, lg, hf>>

\* the upstream answers eth_getBlockReceipts: _retryRequest goes on, and
\* when it returns or throws so does rpc.request; lines 313-329
BlockReceiptsResponse(i) ==
    /\ req[i].pc = "rpc"
    /\ \E reply \in BlockReceiptsReplies :
          LET inner == retryRequestLoop(rpc, <<reply>>)
          IN  /\ rpc' = inner
              /\ req' = [req EXCEPT ![i] =
                    IF inner.pc = "done" THEN [@ EXCEPT !.pc = "done"]
                    ELSE IF inner.pc = "failed"
                    THEN catchBlockReceiptsError(@, "RPC request failed")
                    ELSE @]
    /\ UNCHANGED <<storeVars, vp, vm, lg, hf>>

\* lines 331-345: the per-transaction requests returned or one step failed
BlockReceiptsFallback(i) ==
    /\ req[i].pc = "fallback"
    /\ \/ req' = [req EXCEPT ![i].pc = "done"]
       \/ \E kind \in {"Internal", "Error"} :
             req' = [req EXCEPT ![i].pc = "failed", ![i].kind = kind]
    /\ UNCHANGED <<storeVars, vp, vm, lg, hf, rpc>>

BlockReceiptsReturn(i) ==
    /\ req[i].pc \in {"done", "failed"}
    /\ req' = [req EXCEPT ![i] = BRIdle]
    /\ rpc' = NoRPC
    /\ UNCHANGED <<storeVars, vp, vm, lg, hf>>

BlockReceiptsInit ==
    /\ StoreInit
    /\ req = [i \in Reqs |-> BRIdle]
    /\ vp = NoCall /\ vm = NoVM /\ lg = NoLogs /\ hf = NoUpdate
    /\ rpc = NoRPC

BlockReceiptsNext ==
    \E i \in Reqs :
       \/ GetBlockReceipts(i)
       \/ BlockReceiptsResponse(i)
       \/ BlockReceiptsFallback(i)
       \/ BlockReceiptsReturn(i)

SpecBlockReceipts == BlockReceiptsInit /\ [][BlockReceiptsNext]_vars

(* ----------------------------- getVMCopy ------------------------------ *)
\* lines 696-709 and the use getVM makes of the copy (lines 735-736,
\* 796-812). A VM is an object of the heap; its state is the set of the
\* requests (slot and generation) whose accounts were put into it.
VMReqs == {1, 2}
NullVM == <<"null", 0>>
VMIds == {<<k, i>> : k \in {"base", "copy"}, i \in VMReqs}
FreeVM == [alloc |-> FALSE, state |-> {}]
CopyIdle == [pc |-> "idle", gen |-> 0, vmref |-> NullVM, seen |-> {}]
NoVMs ==
    [pc |-> "idle", thisvm |-> NullVM, heap |-> [id \in VMIds |-> FreeVM],
     r |-> [i \in VMReqs |-> CopyIdle]]

\* mutant: the base VM itself is handed out
shallowCopy_Mut(heap, src, dst) == [heap |-> heap, ref |-> src]
\* this.vm.shallowCopy(): a new VM with a state manager of its own that
\* starts from the state of `src`
shallowCopy(heap, src, dst) ==
    [heap |-> [heap EXCEPT ![dst] = [alloc |-> TRUE,
                                     state |-> heap[src].state]],
     ref |-> dst]

\* getVM reaches getVMCopy (line 735): with a base VM the copy is made,
\* without one the creation of the base VM starts
GetVMCopy(i) ==
    /\ vm.r[i].pc = "idle"
    /\ LET r == [vm.r[i] EXCEPT !.gen = 1 - @]
       IN  IF vm.thisvm = NullVM
           THEN vm' = [vm EXCEPT !.r[i] = [r EXCEPT !.pc = "blockchain"]]
           ELSE LET c == shallowCopy(vm.heap, vm.thisvm, <<"copy", i>>)
                IN  vm' = [vm EXCEPT !.heap = c.heap,
                                     !.r[i] = [r EXCEPT !.pc = "copied",
                                                        !.vmref = c.ref]]
    /\ UNCHANGED <<storeVars, req, vp, lg, hf, rpc>>

\* line 698: Blockchain.create returned
BlockchainCreated(i) ==
    /\ vm.r[i].pc = "blockchain"
    /\ vm' = [vm EXCEPT !.r[i].pc = "vmcreate"]
    /\ UNCHANGED <<storeVars, req, vp, lg, hf, rpc>>

\* lines 706-708: VM.create returned, this.vm is assigned (whatever it
\* holds by now) and copied
VMCreated(i) ==
    /\ vm.r[i].pc = "vmcreate"
    /\ LET base == <<"base", i>>
           heap == [vm.heap EXCEPT ![base] = [alloc |-> TRUE, state |-> {}]]
           c == shallowCopy(heap, base, <<"copy", i>>)
       IN  vm' = [vm EXCEPT !.thisvm = base, !.heap = c.heap,
                            !.r[i].pc = "copied", !.r[i].vmref = c.ref]
    /\ UNCHANGED <<storeVars, req, vp, lg, hf, rpc>>

\* lines 796-811: the accounts of the request are put into its VM
PutAccounts(i) ==
    /\ vm.r[i].pc = "copied"
    /\ vm' = [vm EXCEPT !.heap[vm.r[i].vmref].state =
                              @ \cup {<<i, vm.r[i].gen>>},
                        !.r[i].pc = "installed"]
    /\ UNCHANGED <<storeVars, req, vp, lg, hf, rpc>>

\* a request of the batch or a verification failed: getVM throws
VMCopyFail(i) ==
    /\ vm.r[i].pc \in {"copied", "installed"}
    /\ vm' = [vm EXCEPT !.r[i].pc = "failed"]
    /\ UNCHANGED <<storeVars, req, vp, lg, hf, rpc>>

\* the caller runs the transaction on the VM getVM returned: what the
\* execution finds in the state
RunOnVM(i) ==
    /\ vm.r[i].pc = "installed"
    /\ vm' = [vm EXCEPT !.r[i].pc = "done",
                        !.r[i].seen = vm.heap[vm.r[i].vmref].state]
    /\ UNCHANGED <<storeVars, req, vp, lg, hf, rpc>>

\* the request is over: its copy is garbage
VMCopyReturn(i) ==
    /\ vm.r[i].pc \in {"done", "failed"}
    /\ vm' = [vm EXCEPT !.heap[<<"copy", i>>] = FreeVM,
                        !.r[i] = [CopyIdle EXCEPT !.gen = vm.r[i].gen]]
    /\ UNCHANGED <<storeVars, req, vp, lg, hf, rpc>>

VMCopyInit ==
    /\ vm = NoVMs /\ vp = NoCall /\ lg = NoLogs /\ hf = NoUpdate
    /\ rpc = NoRPC /\ StoreIdle

VMCopyNext ==
    \E i \in VMReqs :
       \/ GetVMCopy(i)
       \/ BlockchainCreated(i)
       \/ VMCreated(i)
       \/ PutAccounts(i)
       \/ VMCopyFail(i)
       \/ RunOnVM(i)
       \/ VMCopyReturn(i)

SpecVMCopy == VMCopyInit /\ [][VMCopyNext]_vars

(* ------------- verifyProof on every input of the model ---------------- *)
VerifyInit == vp = NoCall /\ StoreIdle /\ vm = NoVM /\ lg = NoLogs /\ hf = NoUpdate /\ rpc = NoRPC

CallVerifyProof ==
    /\ vp = NoCall
    /\ \E address \in Addresses, storageKeys \in SeqsUpTo(Slots, MaxKeys),
          stateRoot \in StateRoots, proof \in GetProofResponses :
          vp' = [called |-> TRUE, address |-> address,
                 storageKeys |-> storageKeys, stateRoot |-> stateRoot,
                 proof |-> proof,
                 result |-> verifyProof(address, storageKeys, stateRoot, proof)]
    /\ UNCHANGED <<storeVars, req, vm, lg, hf, rpc>>

VerifyReturn ==
    /\ vp # NoCall
    /\ vp' = NoCall
    /\ UNCHANGED <<storeVars, req, vm, lg, hf, rpc>>

VerifyNext == CallVerifyProof \/ VerifyReturn

SpecVerify == VerifyInit /\ [][VerifyNext]_vars

(* ================== the operations of the provider ==================== *)
\* the account the state trie under `root` holds for `address`
TrueAccount(root, address) ==
    IF StateTrie(root, address) = NULL THEN emptyAccountRLP
                                       ELSE StateTrie(root, address)

\* the header a finished request used is the verified header of the block
\* tag it was given: its hash is the trusted hash of that block number
UsedVerifiedHeader(r) ==
    /\ r.header # NoHeader
    /\ HeaderHash(r.header) = r.blockHash
    /\ r.blockHash = blockHashes[r.n]
    /\ r.header.number = r.n

\* C1: getBalance and getTransactionCount return a value only if
\* verifyProof accepted the upstream's account proof against the stateRoot
\* of the verified header of the caller's block tag (the value is then the
\* one the state trie holds); when the proof is not accepted the request
\* fails and returns no value.
C1_ValueOnlyFromAcceptedProof ==
    \A i \in Reqs :
       LET r == req[i] IN
       r.op \in {"getBalance", "getTransactionCount"} =>
          /\ r.pc = "done" =>
                /\ r.verified = "true"
                /\ UsedVerifiedHeader(r)
                /\ r.value = IF r.op = "getBalance"
                             THEN TrueAccount(r.header.stateRoot, r.address)[2]
                             ELSE TrueAccount(r.header.stateRoot, r.address)[1]
          /\ r.verified \in {"false", THROWS} =>
                r.pc = "failed" /\ r.value = NONE

\* a balance of 1 was returned for a block below the trusted head
C1_Witness ==
    \E i \in Reqs :
       /\ req[i].pc = "done" /\ req[i].op = "getBalance"
       /\ req[i].value = 1 /\ req[i].n < latestBlockNumber

\* C3: getCode returns code c only if the account proof verified and
\* keccak(c) is the codeHash of the verified account, or c is "0x" and the
\* codeHash is KECCAK256_NULL or the zero hash; otherwise it fails and
\* returns nothing.
C3_CodeMatchesCodeHash ==
    \A i \in Reqs :
       LET r == req[i] IN
       r.op = "getCode" =>
          /\ r.pc = "done" =>
                /\ r.verified = "true"
                /\ UsedVerifiedHeader(r)
                /\ (IF r.codeHash = ZERO_HASH THEN KECCAK256_NULL_S
                                              ELSE r.codeHash)
                      = TrueAccount(r.header.stateRoot, r.address)[4]
                /\ \/ keccak256(r.value) = r.codeHash
                   \/ /\ r.value = CODE_EMPTY
                      /\ r.codeHash \in {KECCAK256_NULL_S, ZERO_HASH}
          /\ r.pc # "done" => r.value = NONE

\* "0x" was returned for an account whose proof gave the zero hash
C3_Witness ==
    \E i \in Reqs :
       /\ req[i].pc = "done" /\ req[i].op = "getCode"
       /\ req[i].value = CODE_EMPTY /\ req[i].codeHash = ZERO_HASH

\* the contract's code was returned
C3_WitnessCode ==
    \E i \in Reqs :
       /\ req[i].pc = "done" /\ req[i].op = "getCode"
       /\ req[i].value = CODE_1

\* C7: when an account-proof, header-hash, block-hash, transactions-root
\* or code-hash check fails, the request fails with an Internal error and
\* returns no value.
C7_CheckFailureIsInternal ==
    \A i \in Reqs :
       (/\ req[i].pc = "failed"
        /\ req[i].reason \in {"accountProof", "headerHash", "blockHash",
                              "transactionsRoot", "codeHash"})
       => /\ req[i].kind = "Internal"
          /\ req[i].value = NONE
          /\ req[i].block = NoBlock

\* C8: getBlockByNumber and getBlockByHash return a block only if the hash
\* of the upstream block's header is the hash of the verified header (the
\* trusted hash of the tag's number, or the requested hash) and its
\* transactions reproduce header.transactionsTrie; the returned block has
\* the trusted/requested hash and number.
C8_BlockMatchesVerifiedHeader ==
    \A i \in Reqs :
       LET r == req[i] IN
       (r.pc = "done" /\ r.op \in {"getBlockByNumber", "getBlockByHash"}) =>
          /\ HeaderHash(r.block.header) = r.blockHash
          /\ r.block.header = r.header
          /\ TxRoot(r.block.transactions) = r.header.transactionsTrie
          /\ r.op = "getBlockByNumber" =>
                /\ r.blockHash = blockHashes[r.n]
                /\ r.block.header.number = r.n

\* a block with transactions was returned for a number below the head
C8_Witness ==
    \E i \in Reqs :
       /\ req[i].pc = "done" /\ req[i].op = "getBlockByNumber"
       /\ req[i].n < latestBlockNumber
       /\ Len(req[i].block.transactions) = 2

(* ========================= the header cache =========================== *)
\* C5: every header of the cache is stored under its own hash; a header
\* is returned only when the hash computed from the upstream data is the
\* requested hash; a failed fetch or a mismatch adds nothing to the cache.
C5_CacheKeyIsHeaderHash ==
    /\ [](/\ \A h \in DOMAIN blockHeaders :
                blockHeaders[h] # NoHeader => HeaderHash(blockHeaders[h]) = h
          /\ \A i \in Reqs :
                req[i].header # NoHeader =>
                   HeaderHash(req[i].header) = req[i].blockHash)
    /\ [][\A i \in Reqs :
             (req[i].pc \in {"walk", "hdr"} /\ req'[i].pc = "failed")
                => blockHeaders' = blockHeaders]_vars

\* a header asked for by its hash is in the cache
C5_Witness ==
    \E i \in Reqs :
       /\ req[i].op = "getBlockByHash" /\ req[i].pc = "block"
       /\ blockHeaders[req[i].blockHash] = req[i].header

(* ============================ block_hash ============================== *)
HeaderByHash(hash) == CHOOSE h \in HeaderUniverse : HeaderHash(h) = hash
\* the d-th ancestor of the block with hash `hash`
RECURSIVE AncestorHash(_, _)
AncestorHash(hash, d) ==
    IF d = 0 THEN hash
    ELSE AncestorHash(HeaderByHash(hash).parentHash, d - 1)

\* C6: for n <= latest_number, block_hash(n) returns the hash of the
\* (latest_number - n)-th ancestor of the trusted head, whatever was stored
\* for n before; for n > latest_number it fails.
C6_BlockHashIsAncestor ==
    \A i \in Reqs :
       LET r == req[i] IN
       r.startNumber # NONE =>
          /\ r.blockHash # NONE =>
                /\ r.n <= r.startNumber
                /\ r.blockHash = AncestorHash(r.startHash, r.startNumber - r.n)
          /\ r.n > r.startNumber =>
                r.pc = "failed" /\ r.blockHash = NONE /\ r.header = NoHeader

\* block_hash(n) returned an ancestor that differs from the stored hash
C6_Witness ==
    \E i \in Reqs :
       /\ req[i].blockHash # NONE
       /\ req[i].preStored # NONE
       /\ req[i].preStored # req[i].blockHash
       /\ req[i].n < req[i].startNumber

\* block_hash(n) failed for a number above latest_number
C6_WitnessFuture ==
    \E i \in Reqs : req[i].pc = "failed" /\ req[i].reason = "future"

\* C18: block_hash(n), for n <= latest_number and with an entry for n
\* already in the hash map, returns that stored entry.
C18_StoredEntryReturned ==
    \A i \in Reqs :
       LET r == req[i] IN
       (/\ r.startNumber # NONE /\ r.n <= r.startNumber
        /\ r.preStored # NONE /\ r.blockHash # NONE)
       => r.blockHash = r.preStored

(* ============================== getVM ================================= *)
\* the value the storage trie of `address` holds under `slot` (0: absent)
TrueStorage(root, address, slot) ==
    LET e == StorageTrie(TrueAccount(root, address)[3], slot)
    IN  IF e = NULL THEN 0 ELSE e[1]

\* C2: every account, every storage slot (key and value) and every code
\* that getVM installs has been verified: the account against the state
\* root, the slot against the account's storage root under its own key,
\* the code against the code hash.
C2_InstalledStateIsVerified ==
    vm.pc \in {"loop", "done"} =>
       /\ \A a \in VMAddresses :
             vm.accounts[a] # NULL =>
                LET t == TrueAccount(vm.stateRoot, a)
                IN  /\ vm.accounts[a][1] = t[1]
                    /\ vm.accounts[a][2] = t[2]
                    /\ vm.accounts[a][3] \in {t[4], ZERO_HASH}
       /\ \A a \in VMAddresses :
             vm.code[a] # NONE =>
                keccak256(vm.code[a]) = TrueAccount(vm.stateRoot, a)[4]
       /\ \A k \in VMAddresses \X Slots :
             vm.storage[k] # NONE =>
                vm.storage[k] = TrueStorage(vm.stateRoot, k[1], k[2])

(* ============================= getLogs ================================ *)
\* C9: if getLogs succeeds, then for every block that contains a returned
\* log, the root of the trie rebuilt from the receipts used for that block
\* equals the receipt root of the verified header of that block.
C9_ReceiptRootClosure ==
    lg.pc = "done" =>
       \A n \in lg.acceptedBlocks :
          LET header == blockHeaders[blockHashes[n]]
          IN  /\ HeaderHash(header) \in DOMAIN lg.blockReceipts
              /\ ReceiptRoot(lg.blockReceipts[HeaderHash(header)])
                    = header.receiptTrie

\* getLogs succeeded with logs of two blocks
C9_Witness ==
    /\ lg.pc = "done"
    /\ Cardinality(lg.acceptedBlocks) >= 2

\* C10 (stated of the last log of a successful getLogs): getLogs accepts
\* a log only if its fields are concrete, the verified block of its number
\* has its block hash, that block has a transaction of its transaction
\* hash at its transaction index, its address and topics are positive in
\* the bloom filter of the header, and the receipt of that transaction
\* contains a log of the same address, data and topics.
C10_AcceptedLogIsInReceiptOfItsTransaction ==
    (lg.pc = "done" /\ lg.accepted # NoLog) =>
        LET l == lg.accepted
            header == blockHeaders[blockHashes[l.blockNumber]]
            receipts == ReceiptsOf(1, l.blockNumber)
        IN  /\ NONE \notin {l.logIndex, l.blockNumber, l.blockHash,
                            l.transactionHash, l.transactionIndex}
            /\ HeaderHash(header) = l.blockHash
            /\ l.transactionIndex + 1 \in 1..Len(TxsOf(1, l.blockNumber))
            /\ TxHash(TxsOf(1, l.blockNumber)[l.transactionIndex + 1])
                  = l.transactionHash
            /\ isInBloom(header.logsBloom, l.address)
            /\ \A t \in 1..Len(l.topics) :
                  isInBloom(header.logsBloom, l.topics[t])
            /\ \E k \in 1..Len(receipts[l.transactionIndex + 1].logs) :
                  /\ receipts[l.transactionIndex + 1].logs[k].address
                        = l.address
                  /\ receipts[l.transactionIndex + 1].logs[k].data = l.data
                  /\ receipts[l.transactionIndex + 1].logs[k].topics
                        = l.topics

(* ======================== sendRawTransaction ========================== *)
\* C11: whenever sendRawTransaction returns, the returned value is the hash
\* of the transaction decoded from the raw bytes, and two runs that differ
\* only in the reply of the upstream return the same hash.
C11_ReturnsLocalHash ==
    /\ \A i \in SendReqs :
          req[i].pc = "done" =>
             /\ isSerializedTx(req[i].signedTx)
             /\ req[i].value = TxHash(fromSerializedData(req[i].signedTx))
    /\ \A i, j \in SendReqs :
          (/\ req[i].pc = "done" /\ req[j].pc = "done"
           /\ req[i].signedTx = req[j].signedTx) =>
              req[i].value = req[j].value

\* two runs on the same raw transaction returned, the upstream having
\* replied with different hashes, one of them not the transaction's
C11_Witness ==
    /\ req[1].pc = "done" /\ req[2].pc = "done"
    /\ req[1].signedTx = req[2].signedTx
    /\ req[1].reply # req[2].reply
    /\ req[1].reply # req[1].value

(* =========================== the head store =========================== *)
\* C12: latest_number is non-decreasing: whatever the numbers of the
\* update() calls, blockNumber() after a call is at least what it was
\* before the call.
C12_LatestNonDecreasing ==
    [][latestBlockNumber' >= latestBlockNumber]_vars

(* ======================== waiting for a block ========================= *)
\* request i is suspended in waitForBlockNumber on a promise that no
\* update has resolved
Suspended(i) ==
    /\ req[i].pc = "wait"
    /\ blockPromises[req[i].n] # "resolved"

\* C13: a request suspended in wait_for(n) is resumed by the first
\* update(_, m) with m >= n after it suspended: no update with m >= n
\* leaves it suspended, and once its promise is resolved it goes on
\* without a further update.
C13_ResumedByFirstCrossingUpdate ==
    /\ [][\A i \in WaitReqs :
            (Suspended(i) /\ latestBlockNumber' >= req[i].n) =>
               (req'[i].pc = "wait" /\ ~Suspended(i)')]_vars
    /\ \A i \in WaitReqs :
          (req[i].pc = "wait" /\ ~Suspended(i)) ~> (req[i].pc # "wait")

\* a request waits for a block that an update has passed: its promise is
\* resolved and its continuation has not run yet
C13_Witness ==
    \E i \in WaitReqs :
       /\ req[i].pc = "wait" /\ ~Suspended(i)
       /\ latestBlockNumber > req[i].n

\* C14: a request for a block number above the head never proceeds to
\* header resolution while latest_number is below its number: when it
\* leaves waitForBlockNumber, latest_number has reached its number.
C14_NoProgressBelowNumber ==
    [][\A i \in WaitReqs :
          (req[i].pc = "wait" /\ req'[i].pc # "wait") =>
             latestBlockNumber >= req[i].n]_vars

\* C15: all requests waiting for the same block number n share the promise
\* of n, and the update that first crosses n releases all of them: after
\* that step none of them is suspended.
C15_AllWaitersReleasedTogether ==
    [][\A n \in 1..MaxBlock :
          (latestBlockNumber < n /\ latestBlockNumber' >= n) =>
             \A i \in WaitReqs :
                (req[i].pc = "wait" /\ req[i].n = n) =>
                   (req'[i].pc = "wait" /\ blockPromises'[n] = "resolved")]_vars

\* two requests wait for the same block and one update released both
C15_Witness ==
    /\ req[1].pc = "wait" /\ req[2].pc = "wait"
    /\ req[1].n = req[2].n
    /\ blockPromises[req[1].n] = "resolved"


(* ============================ reorg overwrite ========================= *)
\* C16: after update(h1, n) followed by update(h2, n) with h1 # h2, the
\* next block_hash(n) returns h2.
C16_ReorgOverwrite ==
    [][\A i \in Reqs :
          (/\ hf.called /\ hf.reorg
           /\ req[i].pc = "idle" /\ req'[i].pc # "idle"
           /\ req'[i].n = hf.blockNumber)
          => req'[i].blockHash = hf.blockHash]_vars


(* ========================= block-tag resolution ======================= *)
\* C17: "latest" resolves to latest_number; "pending", "earliest",
\* "finalized" and "safe" fail with InvalidParams; a hex integer n resolves
\* to n exactly when latest_number - 256 <= n <= latest_number + 3 and
\* fails with InvalidParams otherwise; a rejected tag ends the request on
\* the spot, with no waiter installed and nothing sent upstream.
C17_TagResolution ==
    /\ [](\A i \in TagReqs :
            LET r == req[i]
                o == r.blockOpt
                rejected == /\ r.pc = "failed" /\ r.kind = "InvalidParams"
                            /\ r.n = NONE
            IN  r.pc # "idle" =>
                   /\ o.tag = "latest" =>
                         r.pc = "hash" /\ r.n = latestBlockNumber
                   /\ o.tag \in {"pending", "earliest", "finalized", "safe"}
                         => rejected
                   /\ o.tag = "hex" =>
                         IF /\ latestBlockNumber - 256 <= o.n
                            /\ o.n <= latestBlockNumber + 3
                         THEN r.pc \in {"hash", "wait"} /\ r.n = o.n
                         ELSE rejected)
    /\ [][\A i \in TagReqs :
            (req[i].pc = "idle" /\ req'[i].pc = "failed")
               => /\ blockPromises' = blockPromises
                  /\ \A j \in TagReqs \ {i} : req'[j] = req[j]]_vars

\* the oldest block still accepted, 256 blocks behind the head, and in
\* the same state a request for the block one further back was rejected
C17_Witness ==
    /\ latestBlockNumber > 256
    /\ req[1].pc = "hash" /\ req[1].blockOpt.tag = "hex"
    /\ req[1].n + 256 = latestBlockNumber
    /\ req[2].pc = "failed" /\ req[2].blockOpt.tag = "hex"
    /\ req[2].blockOpt.n + 257 = latestBlockNumber


(* ============================== RPC retry ============================= *)
\* C19: a single upstream request is transmitted at most 5 times; it is
\* sent again only after an attempt that returned Err; the first
\* successful attempt ends the call, which returns that response; the call
\* fails once the 5th attempt has failed.
C19_SingleRetry ==
    rpc.op = "request" =>
       /\ Len(rpc.sent) <= 5
       /\ \A k \in DOMAIN rpc.res :
             rpc.res[k][1].success => (k = Len(rpc.res) /\ rpc.pc = "done")
       /\ rpc.pc = "sent" => Len(rpc.sent) = Len(rpc.res) + 1
       /\ rpc.pc = "done" =>
             /\ Len(rpc.sent) = Len(rpc.res)
             /\ rpc.res[Len(rpc.res)][1].success
             /\ rpc.value = <<rpc.res[Len(rpc.res)][1]>>
       /\ rpc.pc = "failed" =>
             /\ Len(rpc.sent) = 5 /\ Len(rpc.res) = 5
             /\ \A k \in DOMAIN rpc.res : ~rpc.res[k][1].success

\* the fifth attempt was the first to succeed
C19_Witness ==
    /\ rpc.op = "request" /\ rpc.pc = "done"
    /\ Len(rpc.sent) = 5

\* the ids of the sub-requests that a reply answers with an error
ErrIds(reply) == {reply[j].id : j \in {k \in DOMAIN reply : ~reply[k].success}}

\* C20: in a batch retry, attempt k+1 transmits exactly the sub-requests
\* whose attempt k returned Err; a sub-request that has succeeded is never
\* sent again; no more than 5 attempts are made.
C20_SelectiveBatchRetry ==
    rpc.op = "batch" =>
       /\ Len(rpc.sent) <= 5
       /\ \A k \in 1..(Len(rpc.sent) - 1) :
             Range(rpc.sent[k + 1]) = ErrIds(rpc.res[k])
       /\ (rpc.pc \in {"done", "failed"} /\ Len(rpc.res) < 5)
             => ErrIds(rpc.res[Len(rpc.res)]) = {}


(* ======================== request / requestBatch ====================== *)
\* sub-request id got a successful response in some attempt
SucceededOnce(id) ==
    \E k \in DOMAIN rpc.replies : \E j \in DOMAIN rpc.replies[k] :
       rpc.replies[k][j].id = id /\ rpc.replies[k][j].success

\* C21: with batch support, requestBatch on a non-empty list returns one
\* response per sub-request, in request order, whenever every sub-request
\* succeeded in some attempt; it fails only if some sub-request never did.
C21_BatchReturnsEveryResponse ==
    (/\ rpc.call = "requestBatch"
     /\ rpc.provider.supportBatchRequests
     /\ Len(rpc.requests) > 0
     /\ rpc.reason # "method not supported by the provider")
    => /\ rpc.pc = "failed" =>
             \E id \in DOMAIN rpc.requests : ~SucceededOnce(id)
       /\ rpc.pc = "done" =>
             /\ Len(rpc.out) = Len(rpc.requests)
             /\ \A j \in DOMAIN rpc.out :
                   rpc.out[j].id = j /\ rpc.out[j].success


\* C22: request(m) with m an unsupported method, and requestBatch with any
\* unsupported member, fail with "method not supported by the provider"
\* and transmit nothing: no sub-request of such a batch is sent.
C22_UnsupportedMethodSendsNothing ==
    (/\ rpc.call # "none"
     /\ \E j \in DOMAIN rpc.requests :
           rpc.requests[j] \in rpc.provider.unsupportedMethods)
    => /\ rpc.pc = "failed"
       /\ rpc.reason = "method not supported by the provider"
       /\ rpc.log = <<>> /\ rpc.replies = <<>>
       /\ rpc.inner = NoRPC

\* a batch whose first request is supported and whose second is not
C22_Witness ==
    /\ rpc.call = "requestBatch" /\ rpc.pc = "failed"
    /\ Len(rpc.requests) = 2
    /\ rpc.requests[1] \notin rpc.provider.unsupportedMethods
    /\ rpc.requests[2] \in rpc.provider.unsupportedMethods


\* C23: without batch support, requestBatch sends the sub-requests one at
\* a time in list order, each with its own retry of at most 5 attempts,
\* and returns the responses in the order of the requests.
C23_SequentialInOrder ==
    (/\ rpc.call = "requestBatch"
     /\ ~rpc.provider.supportBatchRequests
     /\ rpc.reason # "method not supported by the provider")
    => /\ \A k \in DOMAIN rpc.log : Len(rpc.log[k]) = 1
       /\ Len(rpc.log) > 0 => rpc.log[1] = <<1>>
       /\ \A k \in 1..(Len(rpc.log) - 1) :
             IF rpc.replies[k][1].success
             THEN rpc.log[k + 1][1] = rpc.log[k][1] + 1
             ELSE rpc.log[k + 1][1] = rpc.log[k][1]
       /\ \A id \in DOMAIN rpc.requests :
             Cardinality({k \in DOMAIN rpc.log : rpc.log[k] = <<id>>}) <= 5
       /\ rpc.pc = "done" =>
             /\ Len(rpc.out) = Len(rpc.requests)
             /\ \A j \in DOMAIN rpc.out :
                   rpc.out[j].id = j /\ rpc.out[j].success
       /\ rpc.pc = "failed" =>
             /\ Len(rpc.log) = Len(rpc.replies)
             /\ Cardinality({k \in DOMAIN rpc.log :
                                rpc.log[k] = rpc.log[Len(rpc.log)]}) = 5

\* two requests answered in turn, the second after failed attempts
C23_Witness ==
    /\ rpc.call = "requestBatch" /\ rpc.pc = "done"
    /\ ~rpc.provider.supportBatchRequests
    /\ Len(rpc.requests) = 2
    /\ Len(rpc.log) > 3
    /\ rpc.log[2] = <<2>>


\* C24: when every attempt of an upstream request failed, the provider
\* operation that issued it fails with an Internal error, not with an
\* error of another kind.
C24_UpstreamFailureIsInternal ==
    [][\A i \in Reqs :
          (/\ req[i].pc = "rpc" /\ req'[i].pc = "failed"
           /\ rpc.pc = "failed"
           /\ Len(rpc.replies) = 5
           /\ \A k \in DOMAIN rpc.replies : ~rpc.replies[k][1].success)
          => req'[i].kind = "Internal"]_vars


(* =========================== call / estimateGas ======================= *)
\* the fee fields the spec forbids together
ConflictingFees(tx) ==
    \/ tx.gasPrice # NONE /\ tx.maxFeePerGas # NONE
    \/ tx.gasPrice # NONE /\ tx.maxPriorityFeePerGas # NONE
    \/ /\ tx.maxFeePerGas # NONE /\ tx.maxPriorityFeePerGas # NONE
       /\ tx.maxPriorityFeePerGas > tx.maxFeePerGas

\* C25: call and estimateGas fail with InvalidParams, before any upstream
\* request and before any waiter is installed, when the transaction has
\* gasPrice together with maxFeePerGas or with maxPriorityFeePerGas, or
\* maxPriorityFeePerGas > maxFeePerGas.
C25_FeeConflictIsInvalidParams ==
    /\ [](\A i \in CallReqs :
            (req[i].pc # "idle" /\ ConflictingFees(req[i].tx))
               => /\ req[i].pc = "failed"
                  /\ req[i].kind = "InvalidParams"
                  /\ req[i].reason # "blockOpt"
                  /\ req[i].n = NONE)
    /\ [][\A i \in CallReqs :
            (/\ req[i].pc = "idle" /\ req'[i].pc # "idle"
             /\ ConflictingFees(req'[i].tx))
            => /\ blockPromises' = blockPromises
               /\ req'[i].pc = "failed"]_vars

\* rejected for maxPriorityFeePerGas > maxFeePerGas, with a block tag that
\* names a future block for which a waiter would have been installed
C25_Witness ==
    /\ req[1].pc = "failed" /\ req[1].op = "estimateGas"
    /\ req[1].tx.gasPrice = NONE
    /\ req[1].tx.maxFeePerGas = 1 /\ req[1].tx.maxPriorityFeePerGas = 2
    /\ req[1].blockOpt.tag = "hex" /\ req[1].blockOpt.n > latestBlockNumber
    /\ req[1].blockOpt.n <= MaxBlock
    /\ blockPromises[req[1].blockOpt.n] = "none"

\* C26: call returns the return bytes only for an execution that ended
\* without error; a revert or an exceptional halt reported in the
\* execution result makes call fail with InternalError.
C26_CallReturnsOnlyOnSuccess ==
    \A i \in CallReqs :
       (req[i].op = "call" /\ req[i].pc = "done")
          => req[i].exec.exceptionError = "none"

(* ======================= getTransactionReceipt ======================== *)
\* C27: getTransactionReceipt returns a receipt only if a transaction with
\* the requested hash is in the verified block of the number the upstream
\* claimed; blockHash, blockNumber and transactionIndex of the result are
\* the block's, not the upstream receipt's; a verified block without the
\* transaction fails the call with Internal; no upstream receipt gives null.
C27_ReceiptFromVerifiedBlock ==
    \A i \in Reqs :
       LET r == req[i]
           b == r.block
           at == {j \in 1..Len(b.transactions) :
                     TxHash(b.transactions[j]) = r.txHash}
       IN  r.op = "getTransactionReceipt" =>
           /\ (r.pc = "done" /\ r.result # NoReceipt) =>
                 /\ r.receipt # NoReceipt
                 /\ r.n = getBlockNumberByBlockOpt(r.receipt.blockNumber,
                                                   latestBlockNumber)
                 /\ HeaderHash(b.header) =
                       AncestorHash(r.startHash, r.startNumber - r.n)
                 /\ TxRoot(b.transactions) = b.header.transactionsTrie
                 /\ at # {}
                 /\ r.result.transactionHash = r.txHash
                 /\ r.result.transactionIndex + 1 \in at
                 /\ r.result.blockHash = HeaderHash(b.header)
                 /\ r.result.blockNumber = [tag |-> "hex", n |-> r.n]
                 /\ b.header.number = r.n
           /\ (r.pc \in {"done", "failed"} /\ b # NoBlock /\ at = {}) =>
                 r.pc = "failed" /\ r.kind = "Internal"
           /\ (r.pc = "done" /\ r.receipt = NoReceipt) =>
                 r.result = NoReceipt

\* a receipt was returned for a block below the head although the
\* upstream's receipt named another block hash and another index
C27_Witness ==
    \E i \in Reqs :
       /\ req[i].op = "getTransactionReceipt" /\ req[i].pc = "done"
       /\ req[i].result # NoReceipt
       /\ req[i].n < latestBlockNumber
       /\ req[i].result.blockHash # req[i].receipt.blockHash
       /\ req[i].result.transactionIndex # req[i].receipt.transactionIndex

(* ======================== blocks with uncles ========================== *)
\* C28: when the upstream's block lists uncles, block verification fails;
\* no block is returned for an upstream block with a non-empty uncles list
\* (in particular not with the list replaced by the empty one).
C28_UnclesAreRejected ==
    \A i \in Reqs :
       LET r == req[i] IN
       (r.op = "getBlockByNumber" /\ r.uncles # <<>>
          /\ r.pc \in {"done", "failed"}) =>
             /\ r.pc = "failed"
             /\ r.json = NoJSONBlock

(* ===================== the blockOption validator ====================== *)
\* what the validator is said to accept: the three words, "0x" followed by
\* hex digits of any number, among them the 32-byte hashes
AcceptableBlockOption(p) ==
    /\ p.type = "string"
    /\ \/ p.word \in {"latest", "earliest", "pending"}
       \/ p.word = "0x" /\ IsHexDigits(p)

\* C29: blockOption accepts "latest", "earliest", "pending", every
\* 0x-prefixed hex integer of any length and every 0x-prefixed 32-byte
\* hash, and rejects every other value with InvalidParams; an
\* eth_getBalance request with a hex block number reaches the provider.
C29_BlockOptionAcceptsHexIntegers ==
    \A i \in ValReqs :
       LET r == req[i]
           p == Param(r.params, 1)
       IN  (/\ r.pc # "idle"
            /\ r.reason \notin {"paramsLength", "address"}
            /\ Truthy(p)) =>
              /\ AcceptableBlockOption(p) => r.reason # "blockOption"
              /\ ~AcceptableBlockOption(p) =>
                    /\ r.pc = "failed" /\ r.reason = "blockOption"
                    /\ r.kind = "InvalidParams"

(* ===================== fired slots of the waiters map ================= *)
\* C30: update removes every slot it signals from the waiters map: in
\* every reachable state the map holds no slot whose signal has fired, and
\* no request joins a slot that had already fired.
C30_FiredSlotsAreRemoved ==
    /\ [](\A n \in DOMAIN blockPromises : blockPromises[n] # "resolved")
    /\ [][\A i \in WaitReqs :
             (req[i].pc = "idle" /\ req'[i].pc = "wait") =>
                blockPromises[req'[i].n] # "resolved"]_vars

(* ================= requests in flight across an update ================ *)
\* C31: a request that resolved its block tag to n before an update
\* changed latest_number still completes with the header of number n: the
\* header it returns has number n, and no update makes it fail (its
\* getBlockHash never finds n above the head).
C31_InFlightRequestKeepsItsBlock ==
    \A i \in Reqs :
       /\ req[i].pc = "done" => req[i].header.number = req[i].n
       /\ req[i].pc = "failed" => req[i].reason # "future"

(* ==================== consistency of the hash map ===================== *)
\* C32: every entry (k, h) of the hash map is the hash of a header of
\* number k, and of two consecutive entries k-1 and k that walks derived
\* (here: every entry below MaxBlock) the one at k-1 is the parentHash of
\* the header of the one at k.
C32_HashMapIsAChain ==
    /\ \A k \in DOMAIN blockHashes :
          blockHashes[k] # NONE => HeaderByHash(blockHashes[k]).number = k
    /\ \A k \in 1..(MaxBlock - 1) :
          (blockHashes[k] # NONE /\ blockHashes[k - 1] # NONE) =>
             blockHashes[k - 1] = HeaderByHash(blockHashes[k]).parentHash

(* ================= the augmentation of the access list ================ *)
\* the positions of a list whose address is x, whatever the letter case
PositionsOf(list, x) ==
    {j \in 1..Len(list) : toLowerCase(list[j].address) = toLowerCase(x)}

\* C33: the augmented access list has an entry for the sender and for to;
\* an entry is appended only for an address that the upstream's list does
\* not hold (compared case-insensitively), so the augmentation makes no
\* address appear twice.
C33_AugmentationAddsNoDuplicate ==
    vm.pc = "done" =>
       LET given == {vm.from} \cup (IF vm.to = NONE THEN {} ELSE {vm.to})
           appended == (Len(vm.upstream) + 1)..Len(vm.accessList)
       IN  /\ \A x \in given : PositionsOf(vm.accessList, x) # {}
           /\ \A j \in appended :
                 /\ PositionsOf(vm.upstream, vm.accessList[j].address) = {}
                 /\ PositionsOf(vm.accessList, vm.accessList[j].address) = {j}

(* ========================= getBlockReceipts =========================== *)
\* eth_getBlockReceipts ended as "method not supported": the provider's
\* configuration lists it, or every attempt was answered by the upstream
\* with that error
ReportedNotSupported(r) ==
    \/ "eth_getBlockReceipts" \in r.unsupportedMethods
    \/ /\ Len(rpc.res) = RETRY
       /\ \A t \in 1..RETRY : rpc.res[t][1].error = "method not supported"

\* C34: getBlockReceipts falls back to the per-transaction requests
\* exactly when eth_getBlockReceipts is reported as "method not
\* supported", also when the upstream reports it; any other failure fails
\* the request without a fallback.
C34_FallbackOnlyWhenNotSupported ==
    \A i \in Reqs :
       LET r == req[i] IN
       r.pc \in {"fallback", "done", "failed"} =>
          (r.fallback <=> ReportedNotSupported(r))

(* ======================= isolation of the VM copies =================== *)
\* C35: every call/estimateGas request installs its state into its own
\* copy of the VM: the VM of a request holds no state of another or of an
\* earlier request, a base VM never holds request state, and an execution
\* finds only the state of its own request; also when two requests both
\* create the base VM.
C35_VMCopiesAreIsolated ==
    /\ \A i \in VMReqs : vm.heap[<<"base", i>>].state = {}
    /\ \A i \in VMReqs :
          LET r == vm.r[i] IN
          /\ r.vmref # NullVM =>
                /\ r.vmref = <<"copy", i>>
                /\ vm.heap[r.vmref].state \subseteq {<<i, r.gen>>}
          /\ r.pc = "done" => r.seen = {<<i, r.gen>>}

\* both requests created a base VM (the race on the lazy creation) and
\* both have installed their state
C35_Witness ==
    /\ vm.heap[<<"base", 1>>].alloc /\ vm.heap[<<"base", 2>>].alloc
    /\ vm.r[1].pc = "installed" /\ vm.r[2].pc = "installed"

(* ============================ no lost wake-up ========================= *)
\* C36: every slot of the waiters map whose signal has not fired is for a
\* block number above latest_number, so no request is suspended on a
\* block number that is already trusted.
C36_NoLostWakeUp ==
    /\ \A n \in DOMAIN blockPromises :
          blockPromises[n] = "pending" => n > latestBlockNumber
    /\ \A i \in WaitReqs : Suspended(i) => req[i].n > latestBlockNumber

\* an update has released the waiter of block 1 while another request is
\* still suspended on a block above the new head
C36_Witness ==
    /\ latestBlockNumber >= 1
    /\ blockPromises[1] = "resolved"
    /\ \E i \in WaitReqs : Suspended(i) /\ req[i].n > latestBlockNumber

C38_RequestReturnsSuccessOrThrows ==
    /\ (rpc.call = "request" /\ rpc.pc = "done") =>
          /\ Len(rpc.out) = 1
          /\ rpc.out[1].success
    /\ \A i \in Reqs :
          ~(/\ req[i].pc = "failed"
            /\ req[i].kind = "Internal"
            /\ req[i].reason = "RPC request failed")

\* RPC.request returned after attempts that failed, and getBalance is about
\* to look at the response
C38_Witness ==
    /\ rpc.call = "request" /\ rpc.pc = "done"
    /\ Len(rpc.replies) > 1
    /\ \E i \in Reqs : req[i].pc = "rpc"

\* RPC.request threw after its last attempt failed
C38_WitnessThrows ==
    /\ rpc.call = "request" /\ rpc.pc = "failed"
    /\ rpc.reason = "RPC request failed"

(* ========================= getLogs as a whole ========================= *)
\* log l passes the checks of getLogs against the blocks and the receipts
\* that the running getLogs holds
PassesVerification(l) ==
    /\ checkLogInBlock(l, lg.blocks) = "ok"
    /\ l.blockHash \in DOMAIN lg.blockReceipts
    /\ checkLogInReceipts(l, lg.blocks[l.blockNumber],
                          lg.blockReceipts[l.blockHash]) = "ok"

\* C39: getLogs is all-or-nothing: it returns the upstream log array
\* unchanged (same logs, same order) after every log in it passed
\* verification, or it fails and returns nothing; the first log that fails
\* verification fails the whole request.
C39_GetLogsIsAllOrNothing ==
    lg.pc \in {"loop", "receipts", "done", "failed"} =>
       /\ lg.pc = "done" =>
             /\ lg.value = lg.logs
             /\ Len(lg.logs) = lg.length
             /\ \A j \in DOMAIN lg.logs : PassesVerification(lg.logs[j])
       /\ lg.pc # "done" => lg.value = <<>>
       /\ \A j \in DOMAIN lg.logs :
             ~PassesVerification(lg.logs[j]) =>
                /\ j = Len(lg.logs)
                /\ lg.pc \in {"receipts", "failed"}

\* getLogs returned two logs
C39_Witness ==
    /\ lg.pc = "done"
    /\ Len(lg.value) = 2

\* getLogs failed on its second log after the first had passed
C39_WitnessSecondLogFails ==
    /\ lg.pc = "failed" /\ lg.kind = "Internal"
    /\ Len(lg.logs) = 2
    /\ PassesVerification(lg.logs[1])
    /\ lg.reason = "logNotFound"

(* ====================== C4: verifyProof's contract ==================== *)
\* (1) of C4: the proof's account is what the account proof resolves to
VP_AccountMatches ==
    LET e == TrieVerifyProof(StateTrie(vp.stateRoot, vp.address),
                             vp.stateRoot, vp.address,
                             vp.proof.accountProof)
    IN  /\ e # THROWS
        /\ ProofAccountRLP(vp.proof) =
              (IF e = NULL THEN emptyAccountRLP ELSE e)

\* (2) of C4, for the i-th requested storage key
VP_SlotMatches(i) ==
    /\ i <= Len(vp.proof.storageProof)
    /\ LET sp == vp.proof.storageProof[i]
           e == TrieVerifyProof(StorageTrie(vp.proof.storageHash,
                                            vp.storageKeys[i]),
                                vp.proof.storageHash,
                                vp.storageKeys[i], sp.proof)
       IN  /\ e # THROWS
           /\ \/ (e = NULL /\ sp.value = 0)
              \/ (e # NULL /\ e = rlpEncode(sp.value))

VP_AllMatch ==
    /\ VP_AccountMatches
    /\ \A i \in 1..Len(vp.storageKeys) : VP_SlotMatches(i)

\* C4: verifyProof returns a boolean for every input, and returns true if
\* and only if the account matches what the account proof resolves to and
\* every requested storage key's proof resolves to its value.
C4_BooleanForEveryInput ==
    vp.called =>
        /\ vp.result \in {"true", "false"}
        /\ (vp.result = "true") <=> VP_AllMatch

====
